---------------------------- MODULE Spec2Model ----------------------------
(***************************************************************************)
(* A model of the Jira-to-GitHub provisioning pipeline: one webhook        *)
(* request travelling through handle_jira_webhook (src/main.py).           *)
(*                                                                         *)
(* Conventions.                                                            *)
(*  - A string the code inspects character by character (names, numbers,   *)
(*    environments) is a sequence of one-character strings; "LF" stands    *)
(*    for the newline character.  Dictionary keys and message templates    *)
(*    are TLA+ strings.                                                    *)
(*  - A floating-point budget is an integer number of 1/Scale units        *)
(*    (the budget pattern admits at most five decimals).                   *)
(*  - The ticket notifier is taken to be available: a comment call         *)
(*    returns normally; `ticket` records the calls made, in order.         *)
(*  - A source-control call ends in one of the outcomes the HTTP client    *)
(*    can produce; `ghCalls` records the calls made, in order.             *)
(***************************************************************************)
EXTENDS Integers, Sequences, FiniteSets, TLC

VARIABLES
    pc,                        \* position inside handle_jira_webhook
    request,                   \* the incoming HTTP request
    issue_type_name,           \* AppManager.issue_type_name
    jira_id,                   \* AppManager.jira_id
    config_data,               \* AppManager.config_data (shared with the provisioner)
    fieldIdx,                  \* loop position of parse_jira_request
    envIdx,                    \* loop position of validate_folder_and_projects_name
    buildIdx,                  \* loop position of _built_terraform_yamls
    provisioner,               \* kind of the selected provisioner, "none" before selection
    listing,                   \* how the bulk listing of the hierarchy ended, "none" before it
    assets,                    \* HierarchyrProvisioner.assets, the Index snapshot
    vstate,                    \* validator state
    dw_env_project_name_list,  \* GcpProjectProvisioner.dw_env_project_name_list
    github_manager,            \* TRUE once AppManager.github_manager is set
    github_payload,            \* provisioner.github_payload, in insertion order
    pushPos,                   \* loop position of push_to_github: <<unit, file>>
    ticket,                    \* calls made to the ticket notifier
    ghCalls,                   \* calls made to the source-control host
    prs,                       \* pull requests that exist on the host
    exc,                       \* exception in flight
    response,                  \* what handle_jira_webhook gave back
    hierarchy,                 \* the resource hierarchy itself, which every listing reads
    sessions                   \* concurrent requests: each one's position, config_data and assets

vars == << pc, request, issue_type_name, jira_id, config_data, fieldIdx,
           envIdx, buildIdx, provisioner, listing, assets, vstate, dw_env_project_name_list,
           github_manager, github_payload, pushPos, ticket, ghCalls, prs,
           exc, response, hierarchy, sessions >>

-----------------------------------------------------------------------------
(* Bounds of the model. *)

\* longest ENVIRONMENT checklist a request carries
MaxEnvs == 2
\* how many payload fields may depart from the reference request
MaxDeviations == 2
\* how many source-control calls of one request may fail
MaxFaults == 1
\* how many commits of one request may find their path already held on the branch
MaxHeld == 2
\* how many requests are handled at once
MaxRequests == 2

-----------------------------------------------------------------------------
(* Characters and strings. *)

Digits == {"0", "1", "2", "3", "4", "5", "6", "7", "8", "9"}
UpperSeq == << "A", "B", "C", "D", "E", "F", "G", "H", "I", "J", "K", "L", "M",
               "N", "O", "P", "Q", "R", "S", "T", "U", "V", "W", "X", "Y", "Z" >>
LowerSeq == << "a", "b", "c", "d", "e", "f", "g", "h", "i", "j", "k", "l", "m",
               "n", "o", "p", "q", "r", "s", "t", "u", "v", "w", "x", "y", "z" >>
UpperCase == {UpperSeq[i] : i \in 1..26}
LowerCase == {LowerSeq[i] : i \in 1..26}
WhiteSpace == {" ", "LF"}

LowerChar(c) ==
    IF c \in UpperCase THEN LowerSeq[CHOOSE i \in 1..26 : UpperSeq[i] = c] ELSE c
UpperChar(c) ==
    IF c \in LowerCase THEN UpperSeq[CHOOSE i \in 1..26 : LowerSeq[i] = c] ELSE c

\* str.lower() and str.upper()
Lower(s) == [i \in 1..Len(s) |-> LowerChar(s[i])]
Upper(s) == [i \in 1..Len(s) |-> UpperChar(s[i])]

\* re.sub(r'\s+', '_', s): every maximal run of whitespace becomes one underscore
RECURSIVE SubWs(_)
SubWs(s) ==
    IF s = << >> THEN << >>
    ELSE IF Head(s) \in WhiteSpace
         THEN IF Len(s) > 1 /\ s[2] \in WhiteSpace
              THEN SubWs(Tail(s))
              ELSE << "_" >> \o SubWs(Tail(s))
         ELSE << Head(s) >> \o SubWs(Tail(s))

\* '$' of re.match: the end of the string, or just before one final newline
Bodies(s) ==
    {s} \cup (IF Len(s) > 0 /\ s[Len(s)] = "LF" THEN {SubSeq(s, 1, Len(s) - 1)} ELSE {})

NameChar(c) == c \in Digits \cup UpperCase \cup LowerCase \cup {"-", "_"}

\* ^[0-9A-Za-z-_]{lo,hi}$
MatchName(s, lo, hi) ==
    \E b \in Bodies(s) :
        /\ Len(b) >= lo /\ Len(b) <= hi
        /\ \A i \in 1..Len(b) : NameChar(b[i])

\* ^[0-9]{1,10}\.[0-9]{1,5}$
MatchBudget(s) ==
    \E b \in Bodies(s) :
        \E d \in 1..Len(b) :
            /\ b[d] = "."
            /\ d - 1 >= 1 /\ d - 1 <= 10
            /\ Len(b) - d >= 1 /\ Len(b) - d <= 5
            /\ \A i \in 1..Len(b) : i # d => b[i] \in Digits

\* re.match(field_config["validation"], s)
ReMatch(validation, s) ==
    CASE validation = "budget"  -> MatchBudget(s)
      [] validation = "name30"  -> MatchName(s, 3, 30)
      [] validation = "name50"  -> MatchName(s, 3, 50)
      [] validation = "name100" -> MatchName(s, 3, 100)

Scale == 100000

\* the decimal digit of a small number
DigitOf(n) == << "0", "1", "2", "3", "4", "5", "6", "7", "8", "9" >>[n + 1]

DigitVal(c) == CHOOSE n \in 0..9 : << "0", "1", "2", "3", "4", "5", "6", "7", "8", "9" >>[n + 1] = c

RECURSIVE Pow10(_)
Pow10(n) == IF n = 0 THEN 1 ELSE 10 * Pow10(n - 1)

RECURSIVE DigitsVal(_)
DigitsVal(s) == IF s = << >> THEN 0 ELSE 10 * DigitsVal(SubSeq(s, 1, Len(s) - 1)) + DigitVal(s[Len(s)])

\* str.strip() of the whitespace float() ignores
RECURSIVE Strip(_)
Strip(s) ==
    IF s # << >> /\ Head(s) \in WhiteSpace THEN Strip(Tail(s))
    ELSE IF s # << >> /\ s[Len(s)] \in WhiteSpace THEN Strip(SubSeq(s, 1, Len(s) - 1))
    ELSE s

\* the decimal literals float() accepts: digits, optionally one point, at most
\* five decimals being representable here
IsDecimal(s) ==
    /\ s # << >>
    /\ \A i \in 1..Len(s) : s[i] \in Digits \cup {"."}
    /\ Cardinality({i \in 1..Len(s) : s[i] = "."}) <= 1
    /\ \E i \in 1..Len(s) : s[i] \in Digits
    /\ \A i \in 1..Len(s) : s[i] = "." => Len(s) - i <= 5

DecimalVal(s) ==
    IF \E i \in 1..Len(s) : s[i] = "."
    THEN LET d == CHOOSE i \in 1..Len(s) : s[i] = "."
         IN  DigitsVal(SubSeq(s, 1, d - 1)) * Scale
               + DigitsVal(SubSeq(s, d + 1, Len(s))) * Pow10(5 - (Len(s) - d))
    ELSE DigitsVal(s) * Scale

\* float(x): [ok |-> TRUE, val |-> v] or a ValueError
ToFloat(raw) ==
    LET s == Strip(raw.v)
    IN  IF IsDecimal(s) THEN [ok |-> TRUE, val |-> DecimalVal(s)]
        ELSE [ok |-> FALSE, val |-> 0]

\* BaseProvisioner.format_for_label_system
format_for_label_system(name) == SubWs(Lower(name))

-----------------------------------------------------------------------------
(* JSON values of the payload. *)

Null == [t |-> "null"]
Str(s) == [t |-> "str", v |-> s]
IntNum(s) == [t |-> "int", v |-> s]        \* v is str(value)
FloatNum(s) == [t |-> "float", v |-> s]    \* v is str(value)
Obj(s) == [t |-> "obj", value |-> s]
ObjChild(s, c) == [t |-> "obj", value |-> s, child |-> [t |-> "obj", value |-> c]]
ObjNoValue == [t |-> "obj"]
Person(s) == [t |-> "obj", displayName |-> s]
List(items) == [t |-> "list", items |-> items]

-----------------------------------------------------------------------------
(* configs/jira/configurations.py *)

Field(type, input_name, output_name, mandatory, validation) ==
    [type |-> type, input_name |-> input_name, output_name |-> output_name,
     mandatory |-> mandatory, validation |-> validation]

project_creation_ticket_fields ==
    << Field("dropdown", "customfield_10550", "DATASECURITY", TRUE, "none"),
       Field("dropdown", "customfield_10611", "PROJECT_TYPE", TRUE, "none"),
       Field("dropdown_nested", "customfield_10611", "PROJECT_TYPE_FOLDER", TRUE, "none"),
       Field("checklist", "customfield_10549", "ENVIRONMENT", TRUE, "none"),
       Field("numericfield", "customfield_10579", "BUDGET_DEV", FALSE, "budget"),
       Field("numericfield", "customfield_10613", "BUDGET_TEST", FALSE, "budget"),
       Field("numericfield", "customfield_10614", "BUDGET_PROD", FALSE, "budget"),
       Field("textfield", "customfield_10551", "PROJECT_NAME", TRUE, "name50"),
       Field("textfield", "customfield_10578", "FOLDER_NAME", TRUE, "name30"),
       Field("textfield", "customfield_10644", "WBS", FALSE, "name100"),
       Field("reporter", "reporter", "ENGAGEMENT_MANAGER", FALSE, "none") >>

folder_creation_ticket_fields ==
    << Field("dropdown", "customfield_10611", "PROJECT_TYPE", TRUE, "none"),
       Field("dropdown_nested", "customfield_10611", "PROJECT_TYPE_FOLDER", TRUE, "none"),
       Field("textfield", "customfield_10578", "FOLDER_NAME", TRUE, "name30"),
       Field("textfield", "customfield_10644", "WBS", FALSE, "name100"),
       Field("reporter", "reporter", "ENGAGEMENT_MANAGER", FALSE, "none") >>

ProjectIssue == "New GCP Project Provisioning"
FolderIssue == "New GCP Folder Provisioning"

-----------------------------------------------------------------------------
(* The requests the model submits. *)

S_dev == << "d", "e", "v" >>
S_test == << "t", "e", "s", "t" >>
S_prod == << "p", "r", "o", "d" >>
S_qa == << "q", "a" >>
S_l0 == << "l", "0" >>
S_L0 == << "L", "0" >>
S_l1 == << "l", "1" >>
S_l2 == << "l", "2" >>
S_internal == << "i", "n", "t" >>
S_poc == << "p", "o", "c" >>
S_app == << "a", "p", "p" >>
S_Fld == << "F", "l", "d" >>
S_fld == << "f", "l", "d" >>
S_wbs == << "W", "-", "1" >>
S_reporter == << "J", "o", " ", "D" >>

EnvNames == {S_dev, S_test, S_prod, S_qa}

RECURSIVE SeqsUpTo(_, _)
SeqsUpTo(S, n) ==
    IF n = 0 THEN {<< >>}
    ELSE SeqsUpTo(S, n - 1)
           \cup {Append(q, x) : q \in {r \in SeqsUpTo(S, n - 1) : Len(r) = n - 1}, x \in S}

Checklist(envs) == List([i \in 1..Len(envs) |-> Obj(envs[i])])

ProjectInputs ==
    << "customfield_10550", "customfield_10611", "customfield_10549",
       "customfield_10579", "customfield_10613", "customfield_10614",
       "customfield_10551", "customfield_10578", "customfield_10644", "reporter" >>

FolderInputs == << "customfield_10611", "customfield_10578", "customfield_10644", "reporter" >>

\* the reference request: every field present and well-formed
RefFields ==
    [customfield_10550 |-> Obj(S_l0),
     customfield_10611 |-> ObjChild(S_internal, S_poc),
     customfield_10549 |-> Checklist(<< S_dev, S_prod >>),
     customfield_10579 |-> Str(<< "1", "0", "0", ".", "0" >>),
     customfield_10613 |-> Str(<< "5", "0", ".", "0" >>),
     customfield_10614 |-> Str(<< "3", "0", "0", ".", "2", "5" >>),
     customfield_10551 |-> Str(S_app),
     customfield_10578 |-> Str(S_Fld),
     customfield_10644 |-> Str(S_wbs),
     reporter          |-> Person(S_reporter)]

\* what each field may hold instead
AltFields ==
    [customfield_10550 |-> {Null, Obj(S_L0), Obj(S_l1), Obj(S_l2)},
     customfield_10611 |-> {Null, Obj(S_internal)},
     customfield_10549 |-> {Null} \cup ({Checklist(q) : q \in SeqsUpTo(EnvNames, MaxEnvs)}
                                          \ {Checklist(<< S_dev, S_prod >>)}),
     customfield_10579 |-> {Null, Str(<< "1", "5", "0", ".", "0" >>),
                            Str(<< "1", "4", "9", ".", "9", "9", "9", "9", "9" >>),
                            Str(<< "2", "0", "0", ".", "5" >>),
                            Str(<< "a", "b", "c" >>), IntNum(<< "1", "0", "0" >>),
                            FloatNum(<< "1", "2", ".", "5" >>)},
     customfield_10613 |-> {Null, Str(<< "5", "0" >>)},
     customfield_10614 |-> {Null, Str(<< "x" >>)},
     customfield_10551 |-> {Null, Str(<< "a", "!" >>), Str(<< "A", "p", "p" >>)},
     customfield_10578 |-> {Null, Str(S_fld), Str(<< "f", " ", "d" >>)},
     customfield_10644 |-> {Null, Str(<< "w" >>), Str(<< "1", "2", "3" >>)},
     reporter          |-> {Null}]

\* the payloads over `keys` that depart from the reference in at most n fields
RECURSIVE PayloadsFrom(_, _)
PayloadsFrom(keys, n) ==
    IF keys = << >> THEN {<< >>}
    ELSE LET k == Head(keys)
         IN  {(k :> RefFields[k]) @@ r : r \in PayloadsFrom(Tail(keys), n)}
               \cup (IF n > 0
                     THEN {(k :> a) @@ r : a \in AltFields[k], r \in PayloadsFrom(Tail(keys), n - 1)}
                     ELSE {})

Req(method, shape, key, issuetype, fields) ==
    [method |-> method, shape |-> shape, key |-> key, issuetype |-> issuetype, fields |-> fields]

Requests ==
    {Req("GET", "ok", "PROJ-1", ProjectIssue, << >>)}
      \cup {Req("POST", s, "PROJ-1", ProjectIssue, << >>) : s \in {"not_json", "no_issue", "null_issue", "no_key", "no_issuetype"}}
      \cup {Req("POST", "ok", "", ProjectIssue, << >>), Req("POST", "ok", "PROJ-1", "", << >>)}
      \cup {Req("POST", "ok", "PROJ-1", "Bug", << >>)}
      \cup {Req("POST", "ok", "PROJ-1", ProjectIssue, f) : f \in PayloadsFrom(ProjectInputs, MaxDeviations)}
      \cup {Req("POST", "ok", "PROJ-1", FolderIssue, f) : f \in PayloadsFrom(FolderInputs, MaxDeviations)}

-----------------------------------------------------------------------------
(* The ticket notifier (src/app/logger.py). *)

Entry(op, kind, tag, keys, n) == [op |-> op, kind |-> kind, tag |-> tag, keys |-> keys, n |-> n]

\* AppLogger.add_comment_to_jira_issue: one comment posted on the ticket
add_comment_to_jira_issue(log, kind, tag, keys, n) ==
    Append(log, Entry("comment", kind, tag, keys, n))

\* AppLogger.change_issue_status: one transition requested by display name
change_issue_status(log, transition_name) ==
    Append(log, Entry("transition", "", transition_name, << >>, 0))

-----------------------------------------------------------------------------
(* Exceptions (src/app/exceptions.py and the built-in ones the code raises). *)

NoExc == [type |-> "none", reason |-> "", keys |-> << >>]
Raise(type, reason, keys) == [type |-> type, reason |-> reason, keys |-> keys]

\* the direct base class of each exception type
BaseOf(type) ==
    CASE type \in {"InvalidJiraConfigurationParser", "InvalidMethodError", "InvalidPayloadError",
                   "MissingRequiredDataError", "UnhandledIssueTypeError", "ExternalServiceError",
                   "ErrorAddingCommentToJira"} -> "JiraWebhookError"
      [] type \in {"GcpProvisioningError", "PermissionDeniedError", "GitHubOperationError"}
                                                -> "ExternalServiceError"
      [] type \in {"JiraWebhookError", "ValueError", "KeyError", "NameError", "TypeError",
                   "RequestException", "FileExistsError"} -> "Exception"
      [] type = "Exception" -> "BaseException"
      [] OTHER -> "object"

RECURSIVE IsInstance(_, _)
IsInstance(type, cls) ==
    \/ type = cls
    \/ type \notin {"object", "BaseException"} /\ IsInstance(BaseOf(type), cls)

-----------------------------------------------------------------------------
(* Field extraction (src/app/parsers.py). *)

Put(cfg, k, v) == (k :> v) @@ cfg
Has(cfg, k) == k \in DOMAIN cfg

\* PayloadParser._extract_field_value: a missing key reads as None
_extract_field_value(req, element) ==
    IF element.input_name \in DOMAIN req.fields THEN req.fields[element.input_name] ELSE Null

Parsed(cfg, log) == [cfg |-> cfg, log |-> log]

_process_dropdown(cfg, log, element, raw) ==
    IF raw.t = "obj" /\ "value" \in DOMAIN raw
    THEN Parsed(Put(cfg, element.output_name, raw.value), log)
    ELSE Parsed(cfg, log)

_process_people(cfg, log, element, raw) ==
    IF raw.t = "list" /\ Len(raw.items) > 0 /\ "displayName" \in DOMAIN raw.items[1]
    THEN Parsed(Put(cfg, element.output_name, raw.items[1].displayName), log)
    ELSE Parsed(cfg, log)

_process_reporter(cfg, log, element, raw) ==
    IF raw.t = "obj" /\ "displayName" \in DOMAIN raw
    THEN Parsed(Put(cfg, element.output_name, raw.displayName), log)
    ELSE Parsed(cfg, log)

_process_dropdown_nested(cfg, log, element, raw) ==
    IF raw.t = "obj" /\ "child" \in DOMAIN raw /\ "value" \in DOMAIN raw.child
    THEN Parsed(Put(cfg, element.output_name, raw.child.value), log)
    ELSE Parsed(cfg, log)

\* the 'value' of every item that has one, in payload order
RECURSIVE ItemValues(_)
ItemValues(items) ==
    IF items = << >> THEN << >>
    ELSE (IF "value" \in DOMAIN Head(items) THEN << Head(items).value >> ELSE << >>)
           \o ItemValues(Tail(items))

_process_checklist(cfg, log, element, raw) ==
    IF raw.t = "list"
    THEN Parsed(Put(cfg, element.output_name, ItemValues(raw.items)), log)
    ELSE Parsed(cfg, log)

_process_textfield_skip(cfg, log, element, raw) ==
    IF raw.t = "null" THEN Parsed(cfg, log)
    ELSE Parsed(Put(cfg, element.output_name, raw.v), log)

_process_textfield(cfg, log, element, raw) ==
    IF raw.t = "null" THEN Parsed(cfg, log)
    ELSE IF element.validation # "none"
         THEN IF ~ReMatch(element.validation, raw.v)
              THEN Parsed(cfg, add_comment_to_jira_issue(
                                  log, "error", "Invalid value", << element.output_name >>, 0))
              ELSE Parsed(Put(cfg, element.output_name, raw.v), log)
         ELSE Parsed(Put(cfg, element.output_name, raw.v), log)

\* float(attribute_found): a JSON number converts always, a string if it is a literal
FloatOf(raw) ==
    IF raw.t \in {"int", "float"} THEN [ok |-> TRUE, val |-> DecimalVal(raw.v)] ELSE ToFloat(raw)

_process_numericfield(cfg, log, element, raw) ==
    IF raw.t = "null" THEN Parsed(cfg, log)
    ELSE IF element.validation # "none" /\ ~ReMatch(element.validation, raw.v)
         THEN Parsed(cfg, add_comment_to_jira_issue(
                             log, "error", "Invalid value", << element.output_name >>, 0))
         ELSE IF FloatOf(raw).ok
              THEN Parsed(Put(cfg, element.output_name, FloatOf(raw).val), log)
              ELSE Parsed(cfg, add_comment_to_jira_issue(
                                  log, "error", "Invalid numeric value", << element.output_name >>, 0))

\* the dispatch on element["type"] in parse_jira_request
ProcessEntry(cfg, log, element, raw) ==
    CASE element.type = "dropdown"        -> _process_dropdown(cfg, log, element, raw)
      [] element.type = "people"          -> _process_people(cfg, log, element, raw)
      [] element.type = "reporter"        -> _process_reporter(cfg, log, element, raw)
      [] element.type = "dropdown_nested" -> _process_dropdown_nested(cfg, log, element, raw)
      [] element.type = "checklist"       -> _process_checklist(cfg, log, element, raw)
      [] element.type = "textfield"       -> _process_textfield(cfg, log, element, raw)
      [] element.type = "numericfield"    -> _process_numericfield(cfg, log, element, raw)
      [] OTHER                            -> Parsed(cfg, log)

\* the output names of the mandatory entries with no key in cfg, in schema order
RECURSIVE MissingMandatory(_, _)
MissingMandatory(ticket_fields, cfg) ==
    IF ticket_fields = << >> THEN << >>
    ELSE (IF Head(ticket_fields).mandatory /\ ~Has(cfg, Head(ticket_fields).output_name)
          THEN << Head(ticket_fields).output_name >> ELSE << >>)
           \o MissingMandatory(Tail(ticket_fields), cfg)

MissingFirstOnly(ticket_fields, cfg) ==
    LET all == MissingMandatory(ticket_fields, cfg)
    IN  IF all = << >> THEN << >> ELSE << Head(all) >>

\* the names _check_mandatory_fields collects
missing_mandatory_fields(ticket_fields, cfg) == MissingMandatory(ticket_fields, cfg)

RECURSIVE CommentEach(_, _)
CommentEach(log, names) ==
    IF names = << >> THEN log
    ELSE CommentEach(add_comment_to_jira_issue(log, "error", "Mandatory field missing",
                                               << Head(names) >>, 0),
                     Tail(names))

\* AppManager._extract_config_field_values_for_issue_request
TicketFields(name) ==
    IF name = ProjectIssue THEN project_creation_ticket_fields
    ELSE folder_creation_ticket_fields

KnownIssue(name) == name \in {ProjectIssue, FolderIssue}

-----------------------------------------------------------------------------
(* The Resource Hierarchy Index (src/app/provisioners/base.py). *)

None == [t |-> "none"]

\* "folders/<digits>", "projects/<id>", "organizations/<digits>"
ResId(coll, id) == [coll |-> coll, id |-> id]
\* the full resource name of an asset: "//cloudresourcemanager.googleapis.com/<coll>/<id>"
AssetName(coll, id) == [host |-> "//cloudresourcemanager.googleapis.com/", coll |-> coll, id |-> id]

FolderType == "cloudresourcemanager.googleapis.com/Folder"
ProjectType == "cloudresourcemanager.googleapis.com/Project"

Org == ResId("organizations", << "1" >>)

FolderAsset(id, displayName, parent, ancestors) ==
    [asset_type |-> FolderType, name |-> AssetName("folders", id),
     displayName |-> displayName, resname |-> ResId("folders", id), projectId |-> << >>,
     parent |-> parent, ancestors |-> ancestors]

ProjectAsset(number, projectId, resname, parent) ==
    [asset_type |-> ProjectType, name |-> AssetName("projects", number),
     displayName |-> projectId, resname |-> resname, projectId |-> projectId,
     parent |-> parent, ancestors |-> << ResId("projects", number), parent, Org >>]

\* configs/jira/configurations.py: env_mapping
S_Development == << "D", "e", "v", "e", "l", "o", "p", "m", "e", "n", "t" >>
S_Test == << "T", "e", "s", "t" >>
S_Production == << "P", "r", "o", "d", "u", "c", "t", "i", "o", "n" >>

env_mapping_get(environment) ==
    CASE environment = S_dev  -> S_Development
      [] environment = S_test -> S_Test
      [] environment = S_prod -> S_Production
      [] OTHER                -> None

\* configs/jira/configurations.py: data_security_mapping
data_security_mapping == {S_l0, S_l1, << "l", "3" >>}
data_security_tag(level) ==
    CASE level = S_l0 -> "tagValues/281478635840395"
      [] level = S_l1 -> "tagValues/281481147692528"
      [] level = << "l", "3" >> -> "tagValues/281476741727885"

F1 == ResId("folders", << "1" >>)
F2 == ResId("folders", << "2" >>)

A_fld == FolderAsset(<< "1" >>, S_fld, Org, << F1, Org >>)
A_poc == FolderAsset(<< "2" >>, S_poc, Org, << F2, Org >>)
A_dev_other == FolderAsset(<< "2", "1" >>, S_Development, F2,
                           << ResId("folders", << "2", "1" >>), F2, Org >>)
A_dev == FolderAsset(<< "1", "1" >>, S_Development, F1,
                     << ResId("folders", << "1", "1" >>), F1, Org >>)
A_test == FolderAsset(<< "1", "2" >>, S_Test, F1, << >>)
A_prod == FolderAsset(<< "1", "3" >>, S_Production, F1,
                      << ResId("folders", << "1", "3" >>), F1, Org >>)
A_project == ProjectAsset(<< "7" >>, << "d", "w", "-", "d", "e", "v", "-", "z" >>,
                          ResId("projects", << "7" >>), ResId("folders", << "2", "1" >>))

\* the reference snapshot
RefIndex == << A_poc, A_dev_other, A_fld, A_dev, A_test, A_prod, A_project >>

Without(idx, a) == SelectSeq(idx, LAMBDA x : x # a)

DwName(environment, project_name) == << "d", "w", "-" >> \o environment \o << "-" >> \o project_name

\* the snapshots a project request may meet instead of the reference one
ProjectIndexAlts ==
    { << >>,
      Without(RefIndex, A_fld),
      Without(RefIndex, A_fld) \o << FolderAsset(<< "1" >>, S_Fld, Org, << F1, Org >>) >>,
      Without(RefIndex, A_dev),
      Without(RefIndex, A_prod),
      Without(RefIndex, A_fld) \o << FolderAsset(<< "x" >>, S_fld, Org, << F1, Org >>) >>,
      Without(RefIndex, A_prod) \o << FolderAsset(<< "y" >>, S_Production, F1, << >>) >>,
      RefIndex \o << ProjectAsset(<< "8" >>, DwName(S_dev, S_app),
                                  ResId("projects", << "8" >>), ResId("folders", << "1", "1" >>)) >>,
      RefIndex \o << ProjectAsset(<< "9" >>, << "p", "9" >>,
                                  ResId("projects", DwName(S_prod, S_app)),
                                  ResId("folders", << "1", "3" >>)) >> }

\* the snapshots a folder request may meet instead of the reference one
FolderIndexAlts ==
    { << >>,
      RefIndex \o << FolderAsset(<< "3" >>, S_Fld, F2, << ResId("folders", << "3" >>), F2, Org >>) >>,
      Without(RefIndex, A_poc),
      Without(RefIndex, A_poc) \o << FolderAsset(<< "x" >>, S_poc, Org, << >>) >> }

\* the number of payload fields that depart from the reference request
FieldDepartures ==
    Cardinality({k \in DOMAIN request.fields : request.fields[k] # RefFields[k]})

\* what client.list_assets gave: the assets read, and whether paging went through
Listing(ok, idx) == [ok |-> ok, assets |-> idx]

\* what the listing of a request may give: the reference snapshot, another one, or the
\* reference snapshot with a failure while paging
Listings(alts) ==
    {Listing(TRUE, idx) :
        idx \in {RefIndex} \cup (IF FieldDepartures < MaxDeviations THEN alts ELSE {})}
      \cup {Listing(FALSE, RefIndex)}

\* _list_projects_and_folders that keeps the assets read before the failure
_list_projects_and_folders_partial(paged_result) == paged_result.assets

\* HierarchyrProvisioner._list_projects_and_folders: the assets, or [] on any error
_list_projects_and_folders(paged_result) ==
    IF paged_result.ok THEN paged_result.assets ELSE << >>

IsDigits(s) == s # << >> /\ \A i \in 1..Len(s) : s[i] \in Digits

\* HierarchyrProvisioner.check_if_resource_exist: the name of the first match, or None
RECURSIVE check_if_resource_exist(_, _, _)
check_if_resource_exist(idx, resource_name, resource_type) ==
    IF idx = << >> THEN None
    ELSE LET asset == Head(idx)
         IN  IF /\ asset.asset_type = resource_type
                /\ \/ resource_type = FolderType /\ asset.displayName = resource_name
                   \/ /\ resource_type = ProjectType
                      /\ \/ asset.resname = ResId("projects", resource_name)
                         \/ asset.projectId = resource_name
             THEN asset.name
             ELSE check_if_resource_exist(Tail(idx), resource_name, resource_type)

\* HierarchyrProvisioner._extract_folder_id: re.search(r"folders/(\d+)$", name)
_extract_folder_id(match) ==
    IF match = None THEN None
    ELSE IF match.coll = "folders" /\ \E b \in Bodies(match.id) : IsDigits(b)
         THEN ResId("folders", CHOOSE b \in Bodies(match.id) : IsDigits(b))
         ELSE None

\* HierarchyrProvisioner.extract_dw_environment: re.match(r"^dw-([a-z]+)-", text)
extract_dw_environment(text) ==
    IF /\ Len(text) >= 5
       /\ SubSeq(text, 1, 3) = << "d", "w", "-" >>
       /\ \E j \in 5..Len(text) :
              /\ text[j] = "-"
              /\ \A i \in 4..(j - 1) : text[i] \in LowerCase
    THEN LET j == CHOOSE j \in 5..Len(text) :
                      text[j] = "-" /\ \A i \in 4..(j - 1) : text[i] \in LowerCase
         IN  SubSeq(text, 4, j - 1)
    ELSE None

RECURSIVE Join(_)
Join(s) == IF s = << >> THEN "" ELSE Head(s) \o Join(Tail(s))

\* f"BUDGET_{env.upper()}" and f"FOLDER_{env.upper()}"
BudgetKey(env) == "BUDGET_" \o Join(Upper(env))
FolderKey(env) == "FOLDER_" \o Join(Upper(env))

-----------------------------------------------------------------------------
(* Request validators (src/app/provisioners/hierarchy). *)

Checked(ok, cfg, list, error) == [ok |-> ok, cfg |-> cfg, list |-> list, error |-> error]

\* elements_to_format without FOLDER_NAME
elements_to_format_without_folder == << "ENGAGEMENT_MANAGER", "PROJECT_NAME", "WBS", "DATASECURITY" >>

\* GcpProjectProvisioner.__init__: elements_to_format
elements_to_format == << "ENGAGEMENT_MANAGER", "PROJECT_NAME", "FOLDER_NAME", "WBS", "DATASECURITY" >>

\* HierarchyrProvisioner._format_label_elements
RECURSIVE FormatElements(_, _)
FormatElements(cfg, elements) ==
    IF elements = << >> THEN cfg
    ELSE FormatElements(
             IF Has(cfg, Head(elements))
             THEN Put(cfg, Head(elements), format_for_label_system(cfg[Head(elements)]))
             ELSE cfg,
             Tail(elements))

_format_label_elements(cfg) == FormatElements(cfg, elements_to_format)

\* the first folder called subfolder_name that lies under parent_folder_id
RECURSIVE FindSubfolder(_, _, _)
FindSubfolder(idx, subfolder_name, parent_folder_id) ==
    IF idx = << >> THEN None
    ELSE LET asset == Head(idx)
         IN  IF /\ asset.asset_type = FolderType
                /\ asset.displayName = subfolder_name
                /\ \/ \E i \in 1..Len(asset.ancestors) : asset.ancestors[i] = parent_folder_id
                   \/ asset.parent = parent_folder_id
             THEN asset.name
             ELSE FindSubfolder(Tail(idx), subfolder_name, parent_folder_id)

\* GcpProjectProvisioner.get_project_subfolder_id: [ok, id] or the error it raises
get_project_subfolder_id(idx, parent_folder_name, subfolder_name) ==
    LET parent_folder_id_match == check_if_resource_exist(idx, parent_folder_name, FolderType)
        parent_folder_id == _extract_folder_id(parent_folder_id_match)
    IN  IF parent_folder_id_match = None
        THEN [ok |-> FALSE, id |-> None, error |-> "Parent folder not found"]
        ELSE IF parent_folder_id = None
             THEN [ok |-> FALSE, id |-> None, error |-> "Could not extract ID for parent folder"]
             ELSE [ok |-> TRUE, id |-> FindSubfolder(idx, subfolder_name, parent_folder_id),
                   error |-> ""]

\* GcpProjectProvisioner._validate_folder_existence
_validate_folder_existence(idx, cfg) ==
    check_if_resource_exist(idx, cfg["FOLDER_NAME"], FolderType) # None

\* one turn of the loop of validate_folder_and_projects_name without
\* _validate_project_name_uniqueness raising for a name that exists
ValidateEnvironment_unchecked(idx, cfg, list, each_env) ==
    LET dw_env_project_name == DwName(each_env, cfg["PROJECT_NAME"])
        subfolder_to_find == env_mapping_get(each_env)
        sub == get_project_subfolder_id(idx, cfg["FOLDER_NAME"], subfolder_to_find)
    IN  IF subfolder_to_find = None
        THEN Checked(FALSE, cfg, Append(list, dw_env_project_name), "No folder mapping found")
        ELSE IF ~sub.ok
        THEN Checked(FALSE, cfg, Append(list, dw_env_project_name), sub.error)
        ELSE IF sub.id = None
        THEN Checked(FALSE, cfg, Append(list, dw_env_project_name), "Subfolder not found")
        ELSE Checked(TRUE, Put(cfg, FolderKey(each_env), _extract_folder_id(sub.id)),
                     Append(list, dw_env_project_name), "")

\* one turn of the loop of validate_folder_and_projects_name:
\* _validate_project_name_uniqueness, then _validate_environment_subfolder
ValidateEnvironment(idx, cfg, list, each_env) ==
    LET dw_env_project_name == DwName(each_env, cfg["PROJECT_NAME"])
        subfolder_to_find == env_mapping_get(each_env)
        sub == get_project_subfolder_id(idx, cfg["FOLDER_NAME"], subfolder_to_find)
    IN  IF check_if_resource_exist(idx, dw_env_project_name, ProjectType) # None
        THEN Checked(FALSE, cfg, list, "Project exists already")
        ELSE IF subfolder_to_find = None
        THEN Checked(FALSE, cfg, Append(list, dw_env_project_name), "No folder mapping found")
        ELSE IF ~sub.ok
        THEN Checked(FALSE, cfg, Append(list, dw_env_project_name), sub.error)
        ELSE IF sub.id = None
        THEN Checked(FALSE, cfg, Append(list, dw_env_project_name), "Subfolder not found")
        ELSE Checked(TRUE, Put(cfg, FolderKey(each_env), _extract_folder_id(sub.id)),
                     Append(list, dw_env_project_name), "")

\* the loop of check_budget_keys stopping after the first environment
FirstMissingBudget_head_only(cfg, env_list) ==
    IF env_list = << >> THEN ""
    ELSE IF ~Has(cfg, BudgetKey(Head(env_list))) THEN BudgetKey(Head(env_list))
         ELSE ""

\* GcpProjectProvisioner.check_budget_keys: the error it raises, or "" when it returns True
RECURSIVE FirstMissingBudget(_, _)
FirstMissingBudget(cfg, env_list) ==
    IF env_list = << >> THEN ""
    ELSE IF ~Has(cfg, BudgetKey(Head(env_list))) THEN BudgetKey(Head(env_list))
         ELSE FirstMissingBudget(cfg, Tail(env_list))

check_budget_keys(cfg) ==
    IF DOMAIN cfg = {} THEN [error |-> "config_data is empty", key |-> ""]
    ELSE IF ~Has(cfg, "ENVIRONMENT") \/ cfg["ENVIRONMENT"] = << >>
    THEN [error |-> "ENVIRONMENT is empty or missing", key |-> ""]
    ELSE IF FirstMissingBudget(cfg, cfg["ENVIRONMENT"]) # ""
    THEN [error |-> "No associated budget key", key |-> FirstMissingBudget(cfg, cfg["ENVIRONMENT"])]
    ELSE [error |-> "", key |-> ""]

\* _validate_jira_request of the folder provisioner without its uniqueness check
FolderValidation_parent_only(idx, cfg) ==
    LET project_type_folder_name ==
            _extract_folder_id(check_if_resource_exist(idx, cfg["PROJECT_TYPE_FOLDER"], FolderType))
    IN  IF project_type_folder_name = None
        THEN Checked(FALSE, cfg, << >>, "Parent folder does not exist")
        ELSE Checked(TRUE, Put(cfg, "PARENT_FOLDER_ID", project_type_folder_name), << >>, "")

\* _validate_jira_request of the folder provisioner recording the name of the asset it
\* found, without _extract_folder_id
FolderValidation_unextracted(idx, cfg) ==
    LET match == check_if_resource_exist(idx, cfg["PROJECT_TYPE_FOLDER"], FolderType)
    IN  IF check_if_resource_exist(idx, cfg["FOLDER_NAME"], FolderType) # None
        THEN Checked(FALSE, cfg, << >>, "Folder exists already")
        ELSE IF match = None
        THEN Checked(FALSE, cfg, << >>, "Parent folder does not exist")
        ELSE Checked(TRUE, Put(cfg, "PARENT_FOLDER_ID", match), << >>, "")

\* GcpFolderProvisioner._validate_jira_request: uniqueness, then the parent-type folder
FolderValidation(idx, cfg) ==
    LET project_type_folder_name ==
            _extract_folder_id(check_if_resource_exist(idx, cfg["PROJECT_TYPE_FOLDER"], FolderType))
    IN  IF check_if_resource_exist(idx, cfg["FOLDER_NAME"], FolderType) # None
        THEN Checked(FALSE, cfg, << >>, "Folder exists already")
        ELSE IF project_type_folder_name = None
        THEN Checked(FALSE, cfg, << >>, "Parent folder does not exist")
        ELSE Checked(TRUE, Put(cfg, "PARENT_FOLDER_ID", project_type_folder_name), << >>, "")

-----------------------------------------------------------------------------
(* The entry point and the orchestrator (src/main.py, src/app/app_manager.py). *)

NoResponse == [status |-> 0, escaped |-> "none"]
Returned(status) == [status |-> status, escaped |-> "none"]
Escaped(type) == [status |-> 0, escaped |-> type]

\* AppManager.__init__ and the arrival of one request
Init ==
    /\ pc = "check_if_post_request"
    /\ request \in Requests
    /\ issue_type_name = ""
    /\ jira_id = ""
    /\ config_data = << >>
    /\ fieldIdx = 0
    /\ envIdx = 0
    /\ buildIdx = 0
    /\ provisioner = "none"
    /\ listing = "none"
    /\ assets = << >>
    /\ vstate = "unvalidated"
    /\ dw_env_project_name_list = << >>
    /\ github_manager = FALSE
    /\ github_payload = << >>
    /\ pushPos = << 0, 0 >>
    /\ ticket = << >>
    /\ ghCalls = << >>
    /\ prs = << >>
    /\ exc = NoExc
    /\ response = NoResponse
    /\ hierarchy = RefIndex
    /\ sessions = << >>

\* AppManager.check_if_post_request
check_if_post_request ==
    /\ pc = "check_if_post_request"
    /\ IF request.method # "POST"
       THEN /\ exc' = Raise("InvalidMethodError", "Received non-POST request", << >>)
            /\ pc' = "except"
       ELSE /\ pc' = "transform_into_json"
            /\ UNCHANGED exc
    /\ UNCHANGED << hierarchy, sessions, request, listing, issue_type_name, jira_id, config_data, fieldIdx, envIdx, buildIdx,
                    provisioner, assets, vstate, dw_env_project_name_list, github_manager,
                    github_payload, pushPos, ticket, ghCalls, prs, response >>

\* AppManager.transform_into_json
transform_into_json ==
    /\ pc = "transform_into_json"
    /\ IF request.shape = "null_issue"
       THEN \* {"issue": null}: 'key' not in None is not a membership test Python can make
            /\ exc' = Raise("TypeError", "argument of type 'NoneType' is not iterable", << >>)
            /\ pc' = "except"
       ELSE IF request.shape # "ok"
       THEN /\ exc' = Raise("InvalidPayloadError", "Empty or invalid JSON payload", << >>)
            /\ pc' = "except"
       ELSE /\ pc' = "extract_issue"
            /\ UNCHANGED exc
    /\ UNCHANGED << hierarchy, sessions, request, listing, issue_type_name, jira_id, config_data, fieldIdx, envIdx, buildIdx,
                    provisioner, assets, vstate, dw_env_project_name_list, github_manager,
                    github_payload, pushPos, ticket, ghCalls, prs, response >>

\* AppManager.extract_issue
extract_issue ==
    /\ pc = "extract_issue"
    /\ issue_type_name' = request.issuetype
    /\ jira_id' = request.key
    /\ config_data' = Put(config_data, "ISSUE_KEY", request.key)
    /\ IF request.issuetype = ""
       THEN /\ exc' = Raise("MissingRequiredDataError", "Issue type name not found", << >>)
            /\ pc' = "except"
            /\ UNCHANGED ticket
       ELSE IF request.key = ""
       THEN /\ exc' = Raise("MissingRequiredDataError", "Issue Jira ID not found", << >>)
            /\ pc' = "except"
            /\ UNCHANGED ticket
       ELSE /\ ticket' = add_comment_to_jira_issue(ticket, "info", "[START] Received Jira webhook payload",
                                                   << >>, 0)
            /\ pc' = "parse_jira_request"
            /\ UNCHANGED exc
    /\ UNCHANGED << hierarchy, sessions, request, listing, fieldIdx, envIdx, buildIdx, provisioner, assets, vstate,
                    dw_env_project_name_list, github_manager, github_payload, pushPos,
                    ghCalls, prs, response >>

\* AppManager.parse_jira_request: the schema lookup that precedes the loop
parse_jira_request ==
    /\ pc = "parse_jira_request"
    /\ IF ~KnownIssue(issue_type_name)
       THEN /\ exc' = Raise("InvalidJiraConfigurationParser", "Issue type not found in the configuration",
                            << >>)
            /\ pc' = "except"
            /\ UNCHANGED fieldIdx
       ELSE /\ fieldIdx' = 1
            /\ pc' = "process_field"
            /\ UNCHANGED exc
    /\ UNCHANGED << hierarchy, sessions, request, listing, issue_type_name, jira_id, config_data, envIdx, buildIdx,
                    provisioner, assets, vstate, dw_env_project_name_list, github_manager,
                    github_payload, pushPos, ticket, ghCalls, prs, response >>

\* one turn of the loop of parse_jira_request
process_field ==
    /\ pc = "process_field"
    /\ LET ticket_fields == TicketFields(issue_type_name)
           element == ticket_fields[fieldIdx]
           out == ProcessEntry(config_data, ticket, element, _extract_field_value(request, element))
       IN  /\ config_data' = out.cfg
           /\ ticket' = out.log
           /\ fieldIdx' = fieldIdx + 1
           /\ pc' = IF fieldIdx = Len(ticket_fields) THEN "check_mandatory_fields" ELSE "process_field"
    /\ UNCHANGED << hierarchy, sessions, request, listing, issue_type_name, jira_id, envIdx, buildIdx, provisioner, assets,
                    vstate, dw_env_project_name_list, github_manager, github_payload, pushPos,
                    ghCalls, prs, exc, response >>

\* PayloadParser._check_mandatory_fields, as called at the end of parse_jira_request
_check_mandatory_fields ==
    /\ pc = "check_mandatory_fields"
    /\ LET missing == missing_mandatory_fields(TicketFields(issue_type_name), config_data)
       IN  /\ ticket' = CommentEach(ticket, missing)
           /\ IF missing # << >>
              THEN /\ exc' = Raise("ValueError", "Missing mandatory fields", missing)
                   /\ pc' = "except"
              ELSE /\ pc' = "select_provisioner"
                   /\ UNCHANGED exc
    /\ UNCHANGED << hierarchy, sessions, request, listing, issue_type_name, jira_id, config_data, fieldIdx, envIdx, buildIdx,
                    provisioner, assets, vstate, dw_env_project_name_list, github_manager,
                    github_payload, pushPos, ghCalls, prs, response >>

\* the handlers of handle_jira_webhook, tried in source order
handle_exception ==
    /\ pc = "except"
    /\ pc' = "done"
    /\ exc' = NoExc
    /\ LET caught(cls) == IsInstance(exc.type, cls)
           blocked == change_issue_status(
                          add_comment_to_jira_issue(ticket, "error", exc.reason, exc.keys, 0),
                          "Set as blocked")
       IN  IF caught("InvalidMethodError")
           THEN response' = Returned(405) /\ UNCHANGED ticket
           ELSE IF caught("InvalidJiraConfigurationParser")
           THEN response' = Returned(404) /\ UNCHANGED ticket
           ELSE IF caught("InvalidPayloadError") \/ caught("MissingRequiredDataError")
           THEN \* the handler reads webhook_data, a name that is never bound
                response' = Escaped("NameError") /\ UNCHANGED ticket
           ELSE IF caught("GcpProvisioningError") \/ caught("PermissionDeniedError")
           THEN response' = Returned(500) /\ UNCHANGED ticket
           ELSE IF caught("GitHubOperationError")
           THEN response' = Returned(500) /\ ticket' = blocked
           ELSE IF caught("JiraWebhookError")
           THEN response' = Returned(500) /\ UNCHANGED ticket
           ELSE IF caught("Exception")
           THEN response' = Returned(500) /\ ticket' = blocked
           ELSE response' = Escaped(exc.type) /\ UNCHANGED ticket
    /\ UNCHANGED << hierarchy, sessions, request, listing, issue_type_name, jira_id, config_data, fieldIdx, envIdx, buildIdx,
                    provisioner, assets, vstate, dw_env_project_name_list, github_manager,
                    github_payload, pushPos, ghCalls, prs >>

\* AppManager.select_provisioner: the provisioner is built and lists the hierarchy
select_provisioner ==
    /\ pc = "select_provisioner"
    /\ IF issue_type_name = ProjectIssue
       THEN /\ provisioner' = "project"
            /\ \E paged_result \in Listings(ProjectIndexAlts) :
                   /\ assets' = _list_projects_and_folders(paged_result)
                   /\ listing' = IF paged_result.ok THEN "ok" ELSE "failed"
            /\ pc' = "validate_jira_request"
            /\ UNCHANGED exc
       ELSE IF issue_type_name = FolderIssue
       THEN /\ provisioner' = "folder"
            /\ \E paged_result \in Listings(FolderIndexAlts) :
                   /\ assets' = _list_projects_and_folders(paged_result)
                   /\ listing' = IF paged_result.ok THEN "ok" ELSE "failed"
            /\ pc' = "validate_jira_request"
            /\ UNCHANGED exc
       ELSE /\ exc' = Raise("InvalidJiraConfigurationParser", "Issue type not configured for provisioning",
                            << >>)
            /\ pc' = "except"
            /\ UNCHANGED << provisioner, listing, assets >>
    /\ UNCHANGED << hierarchy, sessions, request, issue_type_name, jira_id, config_data, fieldIdx,
                    envIdx, buildIdx, vstate, dw_env_project_name_list, github_manager,
                    github_payload, pushPos, ticket, ghCalls, prs, response >>

\* GcpProjectProvisioner._validate_jira_request: the label formatting
format_label_elements ==
    /\ pc = "validate_jira_request"
    /\ provisioner = "project"
    /\ config_data' = _format_label_elements(config_data)
    /\ vstate' = "label-formatted"
    /\ pc' = "validate_folder_existence"
    /\ UNCHANGED << hierarchy, sessions, request, listing, issue_type_name, jira_id, fieldIdx, envIdx, buildIdx, provisioner,
                    assets, dw_env_project_name_list, github_manager, github_payload, pushPos,
                    ticket, ghCalls, prs, exc, response >>

\* validate_folder_and_projects_name: the parent folder check that opens it
validate_folder_existence ==
    /\ pc = "validate_folder_existence"
    /\ IF _validate_folder_existence(assets, config_data)
       THEN /\ envIdx' = 1
            /\ pc' = "validate_environment"
            /\ vstate' = IF config_data["ENVIRONMENT"] = << >> THEN "names-checked" ELSE vstate
            /\ UNCHANGED exc
       ELSE /\ exc' = Raise("GcpProvisioningError", "Parent folder not found", << >>)
            /\ vstate' = "rejected"
            /\ pc' = "validate_failed"
            /\ UNCHANGED envIdx
    /\ UNCHANGED << hierarchy, sessions, request, listing, issue_type_name, jira_id, config_data, fieldIdx, buildIdx,
                    provisioner, assets, dw_env_project_name_list, github_manager,
                    github_payload, pushPos, ticket, ghCalls, prs, response >>

\* the loop of validate_folder_and_projects_name going on to the next environment after
\* one has failed its check
validate_environment_continue ==
    /\ pc = "validate_environment"
    /\ envIdx <= Len(config_data["ENVIRONMENT"])
    /\ LET out == ValidateEnvironment(assets, config_data, dw_env_project_name_list,
                                      config_data["ENVIRONMENT"][envIdx])
       IN  /\ config_data' = out.cfg
           /\ dw_env_project_name_list' = out.list
           /\ envIdx' = envIdx + 1
           /\ vstate' = IF ~out.ok THEN "rejected"
                        ELSE IF envIdx = Len(config_data["ENVIRONMENT"]) THEN "names-checked"
                        ELSE vstate
           /\ UNCHANGED << pc, exc >>
    /\ UNCHANGED << hierarchy, sessions, request, listing, issue_type_name, jira_id, fieldIdx, buildIdx, provisioner, assets,
                    github_manager, github_payload, pushPos, ticket, ghCalls, prs, response >>

\* validate_folder_and_projects_name: one turn of its loop over ENVIRONMENT
validate_environment ==
    /\ pc = "validate_environment"
    /\ envIdx <= Len(config_data["ENVIRONMENT"])
    /\ LET out == ValidateEnvironment(assets, config_data, dw_env_project_name_list,
                                      config_data["ENVIRONMENT"][envIdx])
       IN  /\ config_data' = out.cfg
           /\ dw_env_project_name_list' = out.list
           /\ IF out.ok
              THEN /\ envIdx' = envIdx + 1
                   /\ vstate' = IF envIdx = Len(config_data["ENVIRONMENT"])
                                THEN "names-checked" ELSE vstate
                   /\ UNCHANGED << pc, exc >>
              ELSE /\ exc' = Raise("GcpProvisioningError", out.error,
                                   << Join(config_data["ENVIRONMENT"][envIdx]) >>)
                   /\ vstate' = "rejected"
                   /\ pc' = "validate_failed"
                   /\ UNCHANGED envIdx
    /\ UNCHANGED << hierarchy, sessions, request, listing, issue_type_name, jira_id, fieldIdx, buildIdx, provisioner, assets,
                    github_manager, github_payload, pushPos, ticket, ghCalls, prs, response >>

\* GcpProjectProvisioner._validate_jira_request: the budget check that closes it
validate_budget_keys ==
    /\ pc = "validate_environment"
    /\ envIdx > Len(config_data["ENVIRONMENT"])
    /\ LET out == check_budget_keys(config_data)
       IN  IF out.error = ""
           THEN /\ vstate' = "complete"
                /\ pc' = "validate_done"
                /\ UNCHANGED exc
           ELSE /\ exc' = Raise("GcpProvisioningError", out.error, << out.key >>)
                /\ vstate' = "rejected"
                /\ pc' = "validate_failed"
    /\ UNCHANGED << hierarchy, sessions, request, listing, issue_type_name, jira_id, config_data, fieldIdx, envIdx, buildIdx,
                    provisioner, assets, dw_env_project_name_list, github_manager,
                    github_payload, pushPos, ticket, ghCalls, prs, response >>

\* GcpFolderProvisioner._validate_jira_request
validate_folder_request ==
    /\ pc = "validate_jira_request"
    /\ provisioner = "folder"
    /\ LET out == FolderValidation(assets, config_data)
       IN  /\ config_data' = out.cfg
           /\ IF out.ok
              THEN /\ vstate' = "complete"
                   /\ pc' = "validate_done"
                   /\ UNCHANGED exc
              ELSE /\ exc' = Raise("GcpProvisioningError", out.error, << >>)
                   /\ vstate' = "rejected"
                   /\ pc' = "validate_failed"
    /\ UNCHANGED << hierarchy, sessions, request, listing, issue_type_name, jira_id, fieldIdx, envIdx, buildIdx, provisioner,
                    assets, dw_env_project_name_list, github_manager, github_payload, pushPos,
                    ticket, ghCalls, prs, response >>

\* AppManager.validate_jira_request: the request summary posted after a clean validation
validate_done ==
    /\ pc = "validate_done"
    /\ ticket' = add_comment_to_jira_issue(ticket, "info", "Request summary", << >>, 0)
    /\ pc' = "initialize_github_manager"
    /\ UNCHANGED << hierarchy, sessions, request, listing, issue_type_name, jira_id, config_data, fieldIdx, envIdx, buildIdx,
                    provisioner, assets, vstate, dw_env_project_name_list, github_manager,
                    github_payload, pushPos, ghCalls, prs, exc, response >>

\* the except clause of validate_jira_request without its ticket update
validate_failed_silent ==
    /\ pc = "validate_failed"
    /\ pc' = "except"
    /\ UNCHANGED << hierarchy, sessions, request, listing, issue_type_name, jira_id, config_data, fieldIdx, envIdx, buildIdx,
                    provisioner, assets, vstate, dw_env_project_name_list, github_manager,
                    github_payload, pushPos, ticket, ghCalls, prs, exc, response >>

\* AppManager.validate_jira_request: its except clause
validate_failed ==
    /\ pc = "validate_failed"
    /\ ticket' = change_issue_status(
                     add_comment_to_jira_issue(ticket, "error", exc.reason, exc.keys, 0),
                     "Set as blocked")
    /\ pc' = "except"
    /\ UNCHANGED << hierarchy, sessions, request, listing, issue_type_name, jira_id, config_data, fieldIdx, envIdx, buildIdx,
                    provisioner, assets, vstate, dw_env_project_name_list, github_manager,
                    github_payload, pushPos, ghCalls, prs, exc, response >>

\* AppManager.initialize_github_manager
initialize_github_manager ==
    /\ pc = "initialize_github_manager"
    /\ \E credentials \in BOOLEAN :
           IF credentials
           THEN /\ github_manager' = TRUE
                /\ ticket' = add_comment_to_jira_issue(ticket, "info", "Connecting to GitHub", << >>, 0)
                /\ pc' = "built_terraform_yaml"
                /\ UNCHANGED exc
           ELSE /\ exc' = Raise("GitHubOperationError", "GitHub configuration missing", << >>)
                /\ pc' = "except"
                /\ UNCHANGED << github_manager, ticket >>
    /\ UNCHANGED << hierarchy, sessions, request, listing, issue_type_name, jira_id, config_data, fieldIdx, envIdx, buildIdx,
                    provisioner, assets, vstate, dw_env_project_name_list, github_payload,
                    pushPos, ghCalls, prs, response >>

-----------------------------------------------------------------------------
(* Configuration synthesizers (src/app/provisioners/hierarchy). *)

\* projects.py: BUDGET_LIMIT, in the unit of the budgets (Scale to one)
BUDGET_LIMIT == 150 * Scale

\* a text is a sequence of tokens: the body of a YAML mapping, or a whitespace character
Body(yaml_data) == [t |-> "body", yaml |-> yaml_data]
Ws(c) == [t |-> "ws", c |-> c]

\* The Python values of a document are Str, None and List as above, and the following.
\* a float
Float(v) == [t |-> "float", v |-> v]
\* a dict with str keys
Map(fields) == [t |-> "map", fields |-> fields]
\* a str written as a literal in the source, none of which YAML reads as anything but a str
Lit(s) == [t |-> "lit", v |-> s]
\* "folders/<digits>" as the characters of the str
PathText(resid) == << "f", "o", "l", "d", "e", "r", "s", "/" >> \o resid.id
Path(resid) == IF resid = None THEN None ELSE Str(PathText(resid))

\* the decimal digits of a natural number
RECURSIVE NatText(_)
NatText(n) == IF n < 10 THEN << DigitOf(n) >> ELSE NatText(n \div 10) \o << DigitOf(n % 10) >>

\* the decimals of a fraction given in units of 1/Scale, without trailing zeros
RECURSIVE FracText(_, _)
FracText(f, width) ==
    IF f = 0 \/ width = 0 THEN << >>
    ELSE << DigitOf(f \div Pow10(width - 1)) >> \o FracText(f % Pow10(width - 1), width - 1)

\* repr(float), as yaml.dump writes a float: "100.0", "149.99999"
FloatRepr(v) ==
    NatText(v \div Scale) \o << "." >> \o (IF v % Scale = 0 THEN << "0" >> ELSE FracText(v % Scale, 5))

null_words == {<< "n", "u", "l", "l" >>, << "N", "u", "l", "l" >>, << "~" >>, << >>}
true_words == {<< "t", "r", "u", "e" >>, << "y", "e", "s" >>, << "o", "n" >>}
false_words == {<< "f", "a", "l", "s", "e" >>, << "n", "o" >>, << "o", "f", "f" >>}

\* the implicit resolvers of YAML 1.1 on a plain scalar: null, bool, int, float, else str
Resolve(text) ==
    IF text \in null_words THEN None
    ELSE IF text \in true_words THEN [t |-> "bool", b |-> TRUE]
    ELSE IF text \in false_words THEN [t |-> "bool", b |-> FALSE]
    ELSE IF IsDigits(text) THEN [t |-> "int", n |-> DigitsVal(text)]
    ELSE IF IsDecimal(text) /\ Head(text) \in Digits /\ (\E i \in 1..Len(text) : text[i] = ".")
    THEN Float(DecimalVal(text))
    ELSE Str(text)

\* the characters that make the emitter quote a scalar that starts with them
indicators == {"!", "&", "*", "#", "%", "@", "|", ">", "'", "[", "]", "{", "}", ","}

\* the representer writing every str as a plain scalar
PlainAllowed_always(text) == TRUE

\* a str is written plain when it reads back as a str, and is not empty, does not
\* start with an indicator and has no whitespace at either end
PlainAllowed(text) ==
    /\ text # << >>
    /\ Resolve(text).t = "str"
    /\ Head(text) \notin indicators \cup WhiteSpace
    /\ text[Len(text)] \notin WhiteSpace

Scalar(style, text) == [t |-> "scalar", style |-> style, text |-> text]

\* the representer of yaml.dump: the node written for a Python value
RECURSIVE represent(_)
represent(data) ==
    CASE data.t = "str"   -> Scalar(IF PlainAllowed(data.v) THEN "plain" ELSE "quoted", data.v)
      [] data.t = "float" -> Scalar("plain", FloatRepr(data.v))
      [] data.t = "none"  -> Scalar("plain", << "n", "u", "l", "l" >>)
      [] data.t = "lit"   -> [t |-> "word", text |-> data.v]
      [] data.t = "list"  ->
             [t |-> "sequence", items |-> [i \in DOMAIN data.items |-> represent(data.items[i])]]
      [] data.t = "map"   ->
             [t |-> "mapping", fields |-> [k \in DOMAIN data.fields |-> represent(data.fields[k])]]

\* the constructor of yaml.safe_load: the Python value read from a node
RECURSIVE construct(_)
construct(node) ==
    CASE node.t = "scalar"   -> IF node.style = "plain" THEN Resolve(node.text) ELSE Str(node.text)
      [] node.t = "word"     -> Lit(node.text)
      [] node.t = "sequence" -> List([i \in DOMAIN node.items |-> construct(node.items[i])])
      [] node.t = "mapping"  -> Map([k \in DOMAIN node.fields |-> construct(node.fields[k])])

\* yaml.dump(yaml_data, indent=2): the text of the mapping, ended by a newline
yaml_dump(yaml_data) == << Body(represent(yaml_data)), Ws("LF") >>

\* yaml.safe_load(text)
yaml_load(text) == construct(text[1].yaml)

\* BaseProvisioner.encode_yaml_file: the base64 form of the YAML text of the document
encode_yaml_file(yaml_data) == [encoding |-> "base64", text |-> yaml_dump(yaml_data)]

\* base64.b64decode(content).decode('utf-8')
b64decode(content) == content.text

\* GcpProjectProvisioner.build_budget_terraform_yaml
build_budget_terraform_yaml(cfg, dw_env_project_name, env) ==
    Map([display_name |-> Str(<< "b", "u", "d", "g", "e", "t", " ", "f", "o", "r", " " >>
                                \o dw_env_project_name),
         units |-> Float(cfg[BudgetKey(env)]),
         period |-> Lit("MONTH"),
         projects |-> List(<< Str(dw_env_project_name) >>)])

\* GcpProjectProvisioner.build_project_terraform_yaml
build_project_terraform_yaml(cfg, dw_env_project_name, env, data_type_tag) ==
    Map([parent |-> Path(cfg[FolderKey(env)]),
         host_project |-> Str(env \o << "-", "s", "p", "o", "k", "e", "-", "0" >>),
         billing_budgets |-> List(<< Str(dw_env_project_name) >>),
         tag_bindings |-> Lit(data_type_tag),
         labels |-> Map([environment |-> Str(env),
                         project_type |-> Str(cfg["PROJECT_TYPE"]),
                         project_sub_type |-> Str(cfg["PROJECT_TYPE_FOLDER"]),
                         project_name_folder |-> Str(cfg["FOLDER_NAME"]),
                         project_name |-> Str(dw_env_project_name),
                         data_security |-> Str(cfg["DATASECURITY"]),
                         engagement_manager |-> Str(cfg["ENGAGEMENT_MANAGER"]),
                         wbs |-> Str(cfg["WBS"])])])

\* the keys build_project_terraform_yaml reads from config_data
ProjectDocKeys(env) ==
    {FolderKey(env), "PROJECT_TYPE", "PROJECT_TYPE_FOLDER", "FOLDER_NAME", "DATASECURITY",
     "ENGAGEMENT_MANAGER", "WBS"}

\* allow_autoapprove_on_dev_budget_limit with a budget at the limit let through
allow_autoapprove_on_dev_budget_limit_at_limit(data_security, budget_dev) ==
    data_security = S_l0 /\ budget_dev # None /\ budget_dev.v <= BUDGET_LIMIT

\* GcpProjectProvisioner.allow_autoapprove_on_dev_budget_limit
allow_autoapprove_on_dev_budget_limit(data_security, budget_dev) ==
    IF data_security = S_l0
    THEN budget_dev # None /\ budget_dev.v < BUDGET_LIMIT
    ELSE FALSE

File(type, dir, name, content) == [type |-> type, dir |-> dir, name |-> name, file |-> content]

\* a branch name that also carries the name of the project
ProjectBranch_with_name(cfg) ==
    [prefix |-> "ticket-", key |-> cfg["ISSUE_KEY"], folder |-> cfg["PROJECT_NAME"]]

\* f'ticket-{ISSUE_KEY}'
ProjectBranch(cfg) == [prefix |-> "ticket-", key |-> cfg["ISSUE_KEY"], folder |-> << >>]
\* f"feature/jira-{ISSUE_KEY}-folder-{formatted FOLDER_NAME}"
FolderBranch(cfg) ==
    [prefix |-> "feature/jira-", key |-> cfg["ISSUE_KEY"],
     folder |-> format_for_label_system(cfg["FOLDER_NAME"])]

\* github_payload as a list that takes a unit for every name, known or not
SetUnit_append(payload, unit) == Append(payload, unit)

\* github_payload[key] = unit: a new key goes last, a known key keeps its place
SetUnit(payload, unit) ==
    IF \E i \in 1..Len(payload) : payload[i].name = unit.name
    THEN [i \in 1..Len(payload) |-> IF payload[i].name = unit.name THEN unit ELSE payload[i]]
    ELSE Append(payload, unit)

\* the decision of _built_terraform_yamls without its test of the environment
UnitAutoApprove_any_env(cfg, env) ==
    allow_autoapprove_on_dev_budget_limit(
        cfg["DATASECURITY"],
        IF Has(cfg, "BUDGET_DEV") THEN Float(cfg["BUDGET_DEV"]) ELSE Float(0))

\* _built_terraform_yamls: whether the unit of environment env is auto-approved
UnitAutoApprove(cfg, env) ==
    /\ env = S_dev
    /\ allow_autoapprove_on_dev_budget_limit(
           cfg["DATASECURITY"],
           IF Has(cfg, "BUDGET_DEV") THEN Float(cfg["BUDGET_DEV"]) ELSE Float(0))

\* the body of the loop of GcpProjectProvisioner._built_terraform_yamls for one project:
\* [ok, unit], where a unit left unfinished by an exception has no autoapprove
ProjectUnit(cfg, dw_env_project_name, data_type_tag) ==
    LET env == extract_dw_environment(dw_env_project_name)
        head == [name |-> dw_env_project_name, pr_title |-> "PR for project creation",
                 env |-> env, data_type_tag |-> data_type_tag,
                 new_branch_name |-> ProjectBranch(cfg)]
        budget == File("budget", "data/budgets/", dw_env_project_name,
                       encode_yaml_file(build_budget_terraform_yaml(cfg, dw_env_project_name, env)))
        project == File("project", "data/projects/", dw_env_project_name,
                        encode_yaml_file(build_project_terraform_yaml(cfg, dw_env_project_name, env,
                                                                      data_type_tag)))
    IN  IF env = None \/ ~Has(cfg, BudgetKey(env))
        THEN [ok |-> FALSE, error |-> "budget",
              unit |-> head @@ [yaml_content_encoded |-> << >>]]
        ELSE IF ~(ProjectDocKeys(env) \subseteq DOMAIN cfg)
        THEN [ok |-> FALSE, error |-> "project",
              unit |-> head @@ [yaml_content_encoded |-> << budget >>]]
        ELSE [ok |-> TRUE, error |-> "",
              unit |-> head @@ [yaml_content_encoded |-> << budget, project >>,
                                autoapprove |-> UnitAutoApprove(cfg, env)]]

\* GcpFolderProvisioner.build_project_folder_terraform_yaml
build_project_folder_terraform_yaml(cfg, folder_parent_id) ==
    Map([parent |-> Path(folder_parent_id),
         name |-> Str(cfg["FOLDER_NAME"]),
         labels |-> Map([project_type |-> Str(format_for_label_system(cfg["PROJECT_TYPE"])),
                         project_sub_type |-> Str(format_for_label_system(cfg["PROJECT_TYPE_FOLDER"])),
                         project_name_folder |-> Str(format_for_label_system(cfg["FOLDER_NAME"]))])])

\* the unit of a folder request built with autoapprove True
FolderUnit_approved(cfg) ==
    [name |-> cfg["FOLDER_NAME"], pr_title |-> "GCP Folder",
     new_branch_name |-> FolderBranch(cfg),
     autoapprove |-> TRUE,
     yaml_content_encoded |->
         << File("folder_yaml", "gcp/folders/", format_for_label_system(cfg["FOLDER_NAME"]),
                 encode_yaml_file(build_project_folder_terraform_yaml(cfg, cfg["PARENT_FOLDER_ID"]))) >>]

\* GcpFolderProvisioner._built_terraform_yamls: the single unit of a folder request
FolderUnit(cfg) ==
    [name |-> cfg["FOLDER_NAME"], pr_title |-> "GCP Folder",
     new_branch_name |-> FolderBranch(cfg),
     autoapprove |-> IF Has(cfg, "AUTO_APPROVE") THEN cfg["AUTO_APPROVE"] ELSE FALSE,
     yaml_content_encoded |->
         << File("folder_yaml", "gcp/folders/", format_for_label_system(cfg["FOLDER_NAME"]),
                 encode_yaml_file(build_project_folder_terraform_yaml(cfg, cfg["PARENT_FOLDER_ID"]))) >>]

\* AppManager.built_terraform_yaml: the provisioner starts its synthesis
built_terraform_yaml ==
    /\ pc = "built_terraform_yaml"
    /\ IF provisioner = "folder"
       THEN /\ github_payload' = << FolderUnit(config_data) >>
            /\ pc' = "push_to_github"
            /\ UNCHANGED << buildIdx, exc >>
       ELSE IF config_data["DATASECURITY"] \notin data_security_mapping
       THEN /\ exc' = Raise("GcpProvisioningError", "Failed to build Terraform YAMLs", << "DATASECURITY" >>)
            /\ pc' = "build_failed"
            /\ UNCHANGED << buildIdx, github_payload >>
       ELSE /\ buildIdx' = 1
            /\ pc' = IF dw_env_project_name_list = << >> THEN "push_to_github" ELSE "build_unit"
            /\ UNCHANGED << github_payload, exc >>
    /\ UNCHANGED << hierarchy, sessions, request, listing, issue_type_name, jira_id, config_data, fieldIdx, envIdx, provisioner,
                    assets, vstate, dw_env_project_name_list, github_manager, pushPos, ticket,
                    ghCalls, prs, response >>

\* the loop of _built_terraform_yamls going on after a document could not be built
build_unit_unchecked ==
    /\ pc = "build_unit"
    /\ LET out == ProjectUnit(config_data, dw_env_project_name_list[buildIdx],
                              data_security_tag(config_data["DATASECURITY"]))
       IN  /\ github_payload' = SetUnit(github_payload, out.unit)
           /\ buildIdx' = buildIdx + 1
           /\ pc' = IF buildIdx = Len(dw_env_project_name_list)
                    THEN "push_to_github" ELSE "build_unit"
    /\ UNCHANGED << hierarchy, sessions, request, listing, issue_type_name, jira_id, config_data, fieldIdx, envIdx, provisioner,
                    assets, vstate, dw_env_project_name_list, github_manager, pushPos, ticket,
                    ghCalls, prs, exc, response >>

\* GcpProjectProvisioner._built_terraform_yamls: one turn of its loop over the project names
build_unit ==
    /\ pc = "build_unit"
    /\ LET out == ProjectUnit(config_data, dw_env_project_name_list[buildIdx],
                              data_security_tag(config_data["DATASECURITY"]))
       IN  /\ github_payload' = SetUnit(github_payload, out.unit)
           /\ IF out.ok
              THEN /\ buildIdx' = buildIdx + 1
                   /\ pc' = IF buildIdx = Len(dw_env_project_name_list)
                            THEN "push_to_github" ELSE "build_unit"
                   /\ UNCHANGED exc
              ELSE /\ exc' = Raise("GcpProvisioningError", "Failed to build Terraform YAMLs",
                                   << out.error >>)
                   /\ pc' = "build_failed"
                   /\ UNCHANGED buildIdx
    /\ UNCHANGED << hierarchy, sessions, request, listing, issue_type_name, jira_id, config_data, fieldIdx, envIdx, provisioner,
                    assets, vstate, dw_env_project_name_list, github_manager, pushPos, ticket,
                    ghCalls, prs, response >>

\* AppManager.built_terraform_yaml: its except clause
build_failed ==
    /\ pc = "build_failed"
    /\ ticket' = change_issue_status(
                     add_comment_to_jira_issue(ticket, "error", exc.reason, exc.keys, 0),
                     "Set as blocked")
    /\ pc' = "except"
    /\ UNCHANGED << hierarchy, sessions, request, listing, issue_type_name, jira_id, config_data, fieldIdx, envIdx, buildIdx,
                    provisioner, assets, vstate, dw_env_project_name_list, github_manager,
                    github_payload, pushPos, ghCalls, prs, exc, response >>

-----------------------------------------------------------------------------
(* Publishing (src/app/app_manager.py, src/app/github.py). *)

\* github.py: BRANCH_NAME, the base branch
BRANCH_NAME == [prefix |-> "main", key |-> "", folder |-> << >>]

NoPath == [dir |-> "", name |-> << >>]

Call(op, unit, branch, path, result) ==
    [op |-> op, unit |-> unit, branch |-> branch, path |-> path, result |-> result]

\* the source-control calls of this request that failed: a request that did not get
\* through, or an error status other than the 422 of a path that is held
Faults ==
    Cardinality({i \in 1..Len(ghCalls) :
                    ghCalls[i].result \in {"error", "http_error", "connection_error",
                                           "exists_unreadable"}})

\* what a call may answer once `used` calls have failed
Answers(used, failures) == {"ok"} \cup (IF used < MaxFaults THEN failures ELSE {})

Failed(result) == IF result = "ok" THEN 0 ELSE 1

\* AppManager.push_to_github: the guards that precede its loop
push_to_github ==
    /\ pc = "push_to_github"
    /\ IF ~github_manager
       THEN /\ exc' = Raise("GcpProvisioningError", "GitHub manager not initialized", << >>)
            /\ pc' = "push_failed"
            /\ UNCHANGED pushPos
       ELSE /\ pushPos' = << 1, 1 >>
            /\ pc' = IF github_payload = << >> THEN "finish"
                     ELSE IF github_payload[1].yaml_content_encoded = << >> THEN "create_pull_request"
                     ELSE "commit_new_file"
            /\ UNCHANGED exc
    /\ UNCHANGED << hierarchy, sessions, request, listing, issue_type_name, jira_id, config_data, fieldIdx, envIdx, buildIdx,
                    provisioner, assets, vstate, dw_env_project_name_list, github_manager,
                    github_payload, ticket, ghCalls, prs, response >>

\* str.strip(): the text without its leading and trailing whitespace
RECURSIVE StripText(_)
StripText(text) ==
    IF text # << >> /\ Head(text).t = "ws" THEN StripText(Tail(text))
    ELSE IF text # << >> /\ text[Len(text)].t = "ws" THEN StripText(SubSeq(text, 1, Len(text) - 1))
    ELSE text

\* the commits of this request that found their path held
Held ==
    Cardinality({i \in 1..Len(ghCalls) :
                    ghCalls[i].op = "commit_file" /\ ghCalls[i].held # None})

\* what the branch may hold at the path before the commit: nothing, the same content,
\* the same text without its final newline or with one more, or an empty file
\* (held paths count among the departures from the reference request)
HeldContents(content) ==
    {None} \cup
      (IF Held < MaxHeld /\ FieldDepartures < MaxDeviations
       THEN {content,
             [encoding |-> "base64", text |-> StripText(b64decode(content))],
             [encoding |-> "base64", text |-> b64decode(content) \o << Ws("LF") >>],
             [encoding |-> "base64", text |-> << >>]}
       ELSE {})

\* compare_existing_file raising the conflict for whatever the branch holds
compare_existing_file_conflict(held, yaml_content_encoded, lookup) ==
    IF lookup # "ok" THEN "exists_unreadable" ELSE "exists_different"

\* GitHubRepoManager.compare_existing_file: how the call ends, given the content the
\* branch holds and the answer to the GET that reads it
compare_existing_file(held, yaml_content_encoded, lookup) ==
    IF lookup # "ok" THEN "exists_unreadable"
    ELSE IF StripText(b64decode(held)) = StripText(b64decode(yaml_content_encoded))
         THEN "exists_same"
         ELSE "exists_different"

\* GitHubRepoManager.commit_file_in_branch: how the call ends; a PUT without sha on a
\* path that is held is answered 422
commit_file_in_branch(held, yaml_content_encoded, put, lookup) ==
    IF put # "ok" THEN "error"
    ELSE IF held = None THEN "ok"
    ELSE compare_existing_file(held, yaml_content_encoded, lookup)

\* GitHubRepoManager._commit_new_file for one file of one unit:
\* get_latest_sha_from_branch, create_branch, commit_file_in_branch (and compare_existing_file)
_commit_new_file ==
    /\ pc = "commit_new_file"
    /\ LET u == pushPos[1]
           f == pushPos[2]
           unit == github_payload[u]
           file == unit.yaml_content_encoded[f]
           path == [dir |-> file.dir, name |-> file.name]
           next == IF f < Len(unit.yaml_content_encoded) THEN "commit_new_file"
                   ELSE "create_pull_request"
       IN  \E sha \in Answers(Faults, {"error"}) :
             IF sha # "ok"
             THEN \* BaseException("Check if file exist"): no handler of the request catches it
                  /\ ghCalls' = Append(ghCalls, Call("get_latest_sha", u, BRANCH_NAME, NoPath, sha))
                  /\ exc' = Raise("BaseException", "Check if file exist", << >>)
                  /\ pc' = "except"
                  /\ UNCHANGED pushPos
             ELSE \E branch \in Answers(Faults, {"http_error", "connection_error"}) :
                    IF branch = "connection_error"
                    THEN /\ ghCalls' = ghCalls \o
                               << Call("get_latest_sha", u, BRANCH_NAME, NoPath, sha),
                                  Call("create_branch", u, unit.new_branch_name, NoPath, branch) >>
                         /\ exc' = Raise("RequestException", "Error during GitHub API request (file commit)",
                                         << >>)
                         /\ pc' = "push_failed"
                         /\ UNCHANGED pushPos
                    ELSE \E held \in HeldContents(file.file) :
                         \E put \in Answers(Faults + Failed(branch), {"error"}) :
                         \E lookup \in IF put = "ok" /\ held # None
                                        THEN Answers(Faults + Failed(branch), {"error"})
                                        ELSE {"ok"} :
                           LET result == commit_file_in_branch(held, file.file, put, lookup)
                           IN  /\ ghCalls' = ghCalls \o
                                     << Call("get_latest_sha", u, BRANCH_NAME, NoPath, sha),
                                        Call("create_branch", u, unit.new_branch_name, NoPath, branch),
                                        Call("commit_file", u, unit.new_branch_name, path, result)
                                          @@ [held |-> held, content |-> file.file] >>
                               /\ IF result = "error"
                                  THEN /\ exc' = Raise("RequestException",
                                                       "Error during GitHub API request (file commit)",
                                                       << >>)
                                       /\ pc' = "push_failed"
                                       /\ UNCHANGED pushPos
                                  ELSE IF result = "exists_different"
                                  THEN \* FileExistsError, wrapped by _commit_new_file
                                       /\ exc' = Raise("Exception",
                                                       "An unexpected error occurred during file commit",
                                                       << >>)
                                       /\ pc' = "push_failed"
                                       /\ UNCHANGED pushPos
                                  ELSE /\ pushPos' = << u, f + 1 >>
                                       /\ pc' = next
                                       /\ UNCHANGED exc
    /\ UNCHANGED << hierarchy, sessions, request, listing, issue_type_name, jira_id, config_data, fieldIdx, envIdx, buildIdx,
                    provisioner, assets, vstate, dw_env_project_name_list, github_manager,
                    github_payload, ticket, prs, response >>

\* the calls GitHubRepoManager.create_pull_request makes for unit u, given what each answers;
\* a connection error of enable_auto_merge leaves before the deletion is requested
PullRequestCalls(u, unit, auto_merge, pr, merge, delete) ==
    << Call("create_pull_request", u, unit.new_branch_name, NoPath, pr) >>
      \o (IF pr = "ok" /\ auto_merge
          THEN << Call("enable_auto_merge", u, unit.new_branch_name, NoPath, merge) >>
                 \o (IF merge # "connection_error"
                     THEN << Call("set_delete_branch_on_merge", u, unit.new_branch_name, NoPath, delete) >>
                     ELSE << >>)
          ELSE << >>)

\* GitHubHandler._create_pull_request_logic: the number of the pull request, 0 for None
pr_url(u, auto_merge, pr, merge) ==
    IF pr = "ok" /\ (~auto_merge \/ merge # "connection_error") THEN u ELSE 0

\* push_to_github, after the files of a unit: the pull request and the ticket update
create_pull_request ==
    /\ pc = "create_pull_request"
    /\ LET u == pushPos[1]
           unit == github_payload[u]
           autoapprove == IF "autoapprove" \in DOMAIN unit THEN unit.autoapprove ELSE FALSE
       IN  \E pr \in Answers(Faults, {"http_error", "connection_error"}) :
           \E merge \in IF pr = "ok" /\ autoapprove
                        THEN Answers(Faults, {"http_error", "connection_error"}) ELSE {"ok"} :
           \E delete \in IF pr = "ok" /\ autoapprove /\ merge # "connection_error"
                         THEN Answers(Faults + Failed(merge), {"http_error"}) ELSE {"ok"} :
             LET url == pr_url(u, autoapprove, pr, merge)
             IN  /\ ghCalls' = ghCalls \o PullRequestCalls(u, unit, autoapprove, pr, merge, delete)
                 /\ prs' = IF url # 0 THEN Append(prs, url) ELSE prs
                 /\ ticket' =
                        IF autoapprove
                        THEN change_issue_status(
                                 add_comment_to_jira_issue(ticket, "info",
                                     "Created and auto-approved PR at", << >>, url),
                                 "Set as done")
                        ELSE change_issue_status(
                                 add_comment_to_jira_issue(ticket, "manual",
                                     "Created a PR that needs manual approval at", << >>, url),
                                 "Set as to be reviewed")
                 /\ pushPos' = << u + 1, 1 >>
                 /\ pc' = IF u = Len(github_payload) THEN "finish"
                          ELSE IF github_payload[u + 1].yaml_content_encoded = << >>
                          THEN "create_pull_request"
                          ELSE "commit_new_file"
    /\ UNCHANGED << hierarchy, sessions, request, listing, issue_type_name, jira_id, config_data, fieldIdx, envIdx, buildIdx,
                    provisioner, assets, vstate, dw_env_project_name_list, github_manager,
                    github_payload, exc, response >>

\* AppManager.push_to_github: its except clauses
push_failed ==
    /\ pc = "push_failed"
    /\ ticket' = change_issue_status(
                     add_comment_to_jira_issue(ticket, "error",
                         IF IsInstance(exc.type, "GcpProvisioningError") THEN exc.reason
                         ELSE "An unexpected error occurred during GitHub push",
                         exc.keys, 0),
                     "Set as blocked")
    /\ pc' = "except"
    /\ UNCHANGED << hierarchy, sessions, request, listing, issue_type_name, jira_id, config_data, fieldIdx, envIdx, buildIdx,
                    provisioner, assets, vstate, dw_env_project_name_list, github_manager,
                    github_payload, pushPos, ghCalls, prs, exc, response >>

\* handle_jira_webhook: the last transition and the answer of a request that went through
finish ==
    /\ pc = "finish"
    /\ ticket' = change_issue_status(ticket, "Set as done")
    /\ response' = Returned(200)
    /\ pc' = "done"
    /\ UNCHANGED << hierarchy, sessions, request, listing, issue_type_name, jira_id, config_data, fieldIdx, envIdx, buildIdx,
                    provisioner, assets, vstate, dw_env_project_name_list, github_manager,
                    github_payload, pushPos, ghCalls, prs, exc >>

Next ==
    \/ check_if_post_request
    \/ transform_into_json
    \/ extract_issue
    \/ parse_jira_request
    \/ process_field
    \/ _check_mandatory_fields
    \/ select_provisioner
    \/ format_label_elements
    \/ validate_folder_existence
    \/ validate_environment
    \/ validate_budget_keys
    \/ validate_folder_request
    \/ validate_done
    \/ validate_failed
    \/ initialize_github_manager
    \/ built_terraform_yaml
    \/ build_unit
    \/ build_failed
    \/ push_to_github
    \/ _commit_new_file
    \/ create_pull_request
    \/ push_failed
    \/ finish
    \/ handle_exception

Spec == Init /\ [][Next]_vars

-----------------------------------------------------------------------------
(* What the ticket and the source-control log show. *)

IsComment(e, tag) == e.op = "comment" /\ e.tag = tag
IsTransition(e, name) == e.op = "transition" /\ e.tag = name

Started == \E i \in 1..Len(ticket) : IsComment(ticket[i], "[START] Received Jira webhook payload")

SuccessComments == {"Created and auto-approved PR at", "Created a PR that needs manual approval at"}
SuccessTransitions == {"Set as done", "Set as to be reviewed"}

\* positions of a PR-link comment directly followed by a success transition
SuccessPairs ==
    {i \in 1..(Len(ticket) - 1) :
        /\ ticket[i].op = "comment" /\ ticket[i].tag \in SuccessComments
        /\ ticket[i + 1].op = "transition" /\ ticket[i + 1].tag \in SuccessTransitions}

\* positions of an error comment directly followed by the blocking transition
FailurePairs ==
    {i \in 1..(Len(ticket) - 1) :
        /\ ticket[i].op = "comment" /\ ticket[i].kind = "error"
        /\ IsTransition(ticket[i + 1], "Set as blocked")}

\* the comments posted with this tag
Comments(tag) == {i \in 1..Len(ticket) : IsComment(ticket[i], tag)}

\* the mandatory entries of the request's schema that have no key in config_data
Unset ==
    {TicketFields(issue_type_name)[i].output_name :
        i \in {j \in 1..Len(TicketFields(issue_type_name)) :
                  /\ TicketFields(issue_type_name)[j].mandatory
                  /\ ~Has(config_data, TicketFields(issue_type_name)[j].output_name)}}

Range(q) == {q[i] : i \in 1..Len(q)}

\* the mandatory-field sweep has just raised
SweepRaised == pc = "except" /\ exc.type = "ValueError"

\* C8: when mandatory entries are left without a key, the error that the sweep raises
\* names every one of them, each once, and the ticket holds one
\* "mandatory field missing" comment per missing field and none for any other field
C8_AggregateNamesAllMissing ==
    SweepRaised =>
        /\ Unset # {}
        /\ Range(exc.keys) = Unset
        /\ Len(exc.keys) = Cardinality(Unset)
        /\ \A name \in Unset :
               Cardinality({i \in Comments("Mandatory field missing") :
                               ticket[i].keys = << name >>}) = 1
        /\ Cardinality(Comments("Mandatory field missing")) = Cardinality(Unset)

\* two mandatory fields are missing, the second one later in the schema than the first
C8_Witness ==
    /\ SweepRaised
    /\ Cardinality(Unset) >= 2
    /\ "DATASECURITY" \in Unset
    /\ "FOLDER_NAME" \in Unset

\* the request ended and the sweep had found a mandatory field missing
MandatoryMissingAtEnd == pc = "done" /\ Comments("Mandatory field missing") # {}

\* C9: a request with an absent mandatory field is answered 400, the status of the
\* missing-data kind, and not by the catch-all handler
C9_MissingFieldAnswered400 ==
    MandatoryMissingAtEnd => response.status = 400

\* the schema entry the extraction loop is about to process, and its raw value
CurrentEntry == TicketFields(issue_type_name)[fieldIdx]
CurrentRaw == _extract_field_value(request, CurrentEntry)

\* the loop stands before a text or numeric entry with a pattern and a value to test
AtPatternField ==
    /\ pc = "process_field"
    /\ CurrentEntry.type \in {"textfield", "numericfield"}
    /\ CurrentEntry.validation # "none"
    /\ CurrentRaw.t # "null"

\* the value passes: it matches the pattern and, if numeric, converts to a float
Accepted ==
    /\ ReMatch(CurrentEntry.validation, CurrentRaw.v)
    /\ CurrentEntry.type = "numericfield" => FloatOf(CurrentRaw).ok

\* C10: a step of the extraction over a text or numeric entry with a pattern (text
\* values being strings, numeric values taken as their string form) either stores the
\* value (as a float for a numeric entry) and posts nothing, or leaves the key unset
\* and posts one error comment naming the entry; in both cases the loop moves on to
\* the next entry, and to the mandatory sweep only after the last one
C10_PatternFieldStep ==
    [][AtPatternField =>
          /\ IF Accepted
             THEN /\ Has(config_data', CurrentEntry.output_name)
                  /\ config_data'[CurrentEntry.output_name] =
                         (IF CurrentEntry.type = "numericfield" THEN FloatOf(CurrentRaw).val
                          ELSE CurrentRaw.v)
                  /\ ticket' = ticket
             ELSE /\ ~Has(config_data', CurrentEntry.output_name)
                  /\ Len(ticket') = Len(ticket) + 1
                  /\ ticket'[Len(ticket')].op = "comment"
                  /\ ticket'[Len(ticket')].kind = "error"
                  /\ ticket'[Len(ticket')].keys = << CurrentEntry.output_name >>
          /\ fieldIdx' = fieldIdx + 1
          /\ pc' = IF fieldIdx = Len(TicketFields(issue_type_name))
                   THEN "check_mandatory_fields" ELSE "process_field"
          /\ exc' = NoExc]_vars

\* a budget that fails its pattern left BUDGET_DEV unset and commented, a later free-text
\* entry that fails too is left unset, and the entries after them were still extracted
C10_Witness ==
    /\ pc = "check_mandatory_fields"
    /\ issue_type_name = ProjectIssue
    /\ request.fields["customfield_10579"] = Str(<< "a", "b", "c" >>)
    /\ request.fields["customfield_10551"] = Str(<< "a", "!" >>)
    /\ ~Has(config_data, "BUDGET_DEV")
    /\ ~Has(config_data, "PROJECT_NAME")
    /\ Cardinality(Comments("Invalid value")) = 2
    /\ Has(config_data, "BUDGET_PROD") /\ config_data["BUDGET_PROD"] = 30025000
    /\ Has(config_data, "FOLDER_NAME") /\ config_data["FOLDER_NAME"] = S_Fld
    /\ Has(config_data, "ENGAGEMENT_MANAGER")

\* C1: a request that got its "processing started" comment ends with exactly one
\* terminal pair on the ticket: one PR-link comment with its success transition, or
\* one error comment with "Set as blocked"; never none, never both, never more
C1_ExactlyOneTerminalPair ==
    (pc = "done" /\ Started) => Cardinality(SuccessPairs \cup FailurePairs) = 1

PublishOps == {"get_latest_sha", "create_branch", "commit_file", "create_pull_request"}

\* the publish calls that failed (a file found with the same content is no failure)
FailedPublishCalls ==
    {i \in 1..Len(ghCalls) :
        ghCalls[i].op \in PublishOps /\ ghCalls[i].result \notin {"ok", "exists_same"}}

PullRequestCreated(u) ==
    \E j \in 1..Len(ghCalls) :
        ghCalls[j].op = "create_pull_request" /\ ghCalls[j].unit = u /\ ghCalls[j].result = "ok"

\* C2: a request during which a publish call failed ends with an error comment and
\* "Set as blocked" on the ticket and with an error outcome for the caller, and a
\* success pair is only ever posted for a unit whose pull request was created
C2_PublishFailureReported ==
    pc = "done" =>
        /\ FailedPublishCalls # {} =>
               /\ FailurePairs # {}
               /\ response.status >= 400 \/ response.escaped # "none"
        /\ \A i \in SuccessPairs : ticket[i].n # 0 /\ PullRequestCreated(ticket[i].n)

\* the reasons the two validators give when a check fails
ValidationReasons ==
    {"Parent folder not found", "Project exists already", "No folder mapping found",
     "Could not extract ID for parent folder", "Subfolder not found",
     "config_data is empty", "ENVIRONMENT is empty or missing", "No associated budget key",
     "Folder exists already", "Parent folder does not exist"}

\* the last two entries of the ticket are an error comment with this reason and the
\* blocking transition
EndsBlockedWith(reasons) ==
    /\ Len(ticket) >= 2
    /\ ticket[Len(ticket) - 1].op = "comment"
    /\ ticket[Len(ticket) - 1].kind = "error"
    /\ ticket[Len(ticket) - 1].tag \in reasons
    /\ IsTransition(ticket[Len(ticket)], "Set as blocked")

\* C3: once a check of a validator has failed, validation is over; the provisioning
\* error travels to the caller, the ticket gets an error comment with the reason of
\* the failure followed by "Set as blocked", the request is answered 500, and nothing
\* is synthesized and no source-control call is made (the notifier being reachable)
C3_ValidationFailureAborts ==
    vstate = "rejected" =>
        /\ pc \in {"validate_failed", "except", "done"}
        /\ github_payload = << >> /\ buildIdx = 0
        /\ ghCalls = << >> /\ ~github_manager /\ prs = << >>
        /\ pc # "done" => exc.type = "GcpProvisioningError" /\ exc.reason \in ValidationReasons
        /\ pc = "except" => EndsBlockedWith({exc.reason})
        /\ pc = "done" => EndsBlockedWith(ValidationReasons) /\ response = Returned(500)
        /\ pc # "validate_failed" => Cardinality(FailurePairs) = 1 /\ SuccessPairs = {}

\* the second environment of a project request failed its subfolder check after the
\* first one had passed, and the request has ended
C3_Witness ==
    /\ pc = "done"
    /\ vstate = "rejected"
    /\ provisioner = "project"
    /\ envIdx = 2
    /\ Len(dw_env_project_name_list) = 2
    /\ EndsBlockedWith({"Subfolder not found"})

\* a unit with every document it needs and its auto-approve flag
UnitComplete(unit) ==
    /\ "autoapprove" \in DOMAIN unit
    /\ Len(unit.yaml_content_encoded) = (IF provisioner = "project" THEN 2 ELSE 1)
    /\ \A f \in 1..Len(unit.yaml_content_encoded) : "file" \in DOMAIN unit.yaml_content_encoded[f]

\* synthesis went through every target of the request
SynthesisComplete ==
    /\ \A u \in 1..Len(github_payload) : UnitComplete(github_payload[u])
    /\ IF provisioner = "project"
       THEN /\ buildIdx = Len(dw_env_project_name_list) + 1
            /\ \A i \in 1..Len(dw_env_project_name_list) :
                   \E u \in 1..Len(github_payload) :
                       github_payload[u].name = dw_env_project_name_list[i]
       ELSE provisioner = "folder" /\ Len(github_payload) = 1

SynthesisFailed == Comments("Failed to build Terraform YAMLs") # {}

\* C4: a source-control call is only ever made once every document of every target
\* has been synthesized, and a request whose synthesis failed makes none
C4_NoPublishBeforeSynthesis ==
    /\ ghCalls # << >> => SynthesisComplete
    /\ pc \in {"commit_new_file", "create_pull_request"} => SynthesisComplete
    /\ (SynthesisFailed \/ pc = "build_failed") => ghCalls = << >> /\ prs = << >>

\* synthesis failed on the project document after the budget document of the unit had
\* been built: the unfinished unit exists and the request ended without a publish call
C4_Witness ==
    /\ pc = "done"
    /\ SynthesisFailed
    /\ Len(github_payload) = 1
    /\ Len(github_payload[1].yaml_content_encoded) = 1
    /\ ~UnitComplete(github_payload[1])
    /\ ghCalls = << >>

\* the data-security level of the request, as normalised for labels
RequestedLevel == format_for_label_system(request.fields["customfield_10550"].value)

\* the dev budget as the request states it
RequestedDevBudget == request.fields["customfield_10579"]

\* the finished units of a project request
ProjectUnits ==
    {u \in 1..Len(github_payload) :
        provisioner = "project" /\ "autoapprove" \in DOMAIN github_payload[u]}

\* C5: the unit of the dev environment of a project request is auto-approved exactly
\* when the data-security level is "l0" and the request states a dev budget whose
\* value is strictly below the limit
C5_DevAutoApprove ==
    \A u \in ProjectUnits :
        github_payload[u].env = S_dev =>
            (github_payload[u].autoapprove
               <=> /\ RequestedLevel = S_l0
                   /\ RequestedDevBudget.t # "null"
                   /\ DecimalVal(RequestedDevBudget.v) < BUDGET_LIMIT)

\* a dev unit at level l0 whose budget lies just below the limit is auto-approved
C5_Witness ==
    \E u \in ProjectUnits :
        /\ github_payload[u].env = S_dev
        /\ github_payload[u].autoapprove
        /\ RequestedDevBudget = Str(<< "1", "4", "9", ".", "9", "9", "9", "9", "9" >>)

\* the orders in which n items can be taken
Orders(n) == {p \in [1..n -> 1..n] : \A i, j \in 1..n : p[i] = p[j] => i = j}

\* the payload _built_terraform_yamls builds from these project names, in this order
RECURSIVE PayloadOf(_, _, _)
PayloadOf(cfg, names, payload) ==
    IF names = << >> THEN payload
    ELSE PayloadOf(cfg, Tail(names),
                   SetUnit(payload, ProjectUnit(cfg, Head(names),
                                                data_security_tag(cfg["DATASECURITY"])).unit))

FlagOf(payload, name) ==
    (CHOOSE unit \in Range(payload) : unit.name = name).autoapprove

Requested(op, u) == \E k \in 1..Len(ghCalls) : ghCalls[k].op = op /\ ghCalls[k].unit = u

\* C7: for every pull request created, merge-on-green and the deletion of the branch
\* after the merge are both requested if its unit is auto-approved, and neither is
\* requested if it is not
C7_AutoMergeIffAutoApprove ==
    \A u \in 1..Len(github_payload) :
        PullRequestCreated(u) =>
            IF github_payload[u].autoapprove
            THEN Requested("enable_auto_merge", u) /\ Requested("set_delete_branch_on_merge", u)
            ELSE ~Requested("enable_auto_merge", u) /\ ~Requested("set_delete_branch_on_merge", u)

-----------------------------------------------------------------------------
(* The folder validator. *)

\* the folders of the snapshot that carry this display name
FoldersNamed(idx, name) ==
    {i \in 1..Len(idx) : idx[i].asset_type = FolderType /\ idx[i].displayName = name}

\* the folder validator has run
FolderValidated == provisioner = "folder" /\ vstate # "unvalidated"

\* C11: when the snapshot holds a folder whose display name is the requested
\* FOLDER_NAME, the folder validator rejects the request with the collision error,
\* which travels as a provisioning error, and PARENT_FOLDER_ID is not recorded
C11_FolderNameCollisionRejected ==
    (FolderValidated /\ FoldersNamed(assets, config_data["FOLDER_NAME"]) # {}) =>
        /\ vstate = "rejected"
        /\ ~Has(config_data, "PARENT_FOLDER_ID")
        /\ pc \in {"validate_failed", "except", "done"}
        /\ pc # "done" => exc.type = "GcpProvisioningError" /\ exc.reason = "Folder exists already"
        /\ pc = "done" => EndsBlockedWith({"Folder exists already"}) /\ response = Returned(500)

\* a folder request whose name is taken while its parent-type folder exists was rejected
C11_Witness ==
    /\ pc = "done"
    /\ FolderValidated
    /\ FoldersNamed(assets, config_data["FOLDER_NAME"]) # {}
    /\ FoldersNamed(assets, config_data["PROJECT_TYPE_FOLDER"]) # {}
    /\ vstate = "rejected"

\* the folders called like the declared parent-type folder, and the first of them
ParentTypeFolders == FoldersNamed(assets, config_data["PROJECT_TYPE_FOLDER"])
FirstParentTypeFolder == assets[CHOOSE i \in ParentTypeFolders : \A j \in ParentTypeFolders : i <= j]

\* the full name of an asset ends in "folders/" and digits
NumberedFolder(asset) == asset.name.coll = "folders" /\ IsDigits(asset.name.id)

\* the folder validator has run on a request whose name is free
FolderNameFree == FolderValidated /\ FoldersNamed(assets, config_data["FOLDER_NAME"]) = {}

-----------------------------------------------------------------------------
(* The project validator. *)

\* the project validator has accepted the request
ProjectValidated == provisioner = "project" /\ vstate = "complete"

\* a project of the snapshot answers to this name, as "projects/<name>" or as project id
ProjectsNamed(idx, name) ==
    {i \in 1..Len(idx) :
        /\ idx[i].asset_type = ProjectType
        /\ idx[i].resname = ResId("projects", name) \/ idx[i].projectId = name}

\* C13: after a successful project validation the target list is dw-<e>-<p> for the
\* declared environments e in their declared order, p being PROJECT_NAME as formatted
\* for labels, and no project of the snapshot answers to any of these names
C13_TargetListOrderedAndUnique ==
    ProjectValidated =>
        /\ config_data["PROJECT_NAME"] =
               format_for_label_system(request.fields["customfield_10551"].v)
        /\ dw_env_project_name_list =
               [i \in 1..Len(config_data["ENVIRONMENT"]) |->
                    DwName(config_data["ENVIRONMENT"][i], config_data["PROJECT_NAME"])]
        /\ \A i \in 1..Len(dw_env_project_name_list) :
               ProjectsNamed(assets, dw_env_project_name_list[i]) = {}

\* a request for prod and dev, in this order, for the project "App" was validated
\* against a snapshot that holds projects under other names
C13_Witness ==
    /\ ProjectValidated
    /\ config_data["ENVIRONMENT"] = << S_prod, S_dev >>
    /\ request.fields["customfield_10551"] = Str(<< "A", "p", "p" >>)
    /\ dw_env_project_name_list = << DwName(S_prod, S_app), DwName(S_dev, S_app) >>
    /\ \E i \in 1..Len(assets) : assets[i].asset_type = ProjectType

\* the declared environments without a BUDGET_<E> key in the configuration map
MissingBudgets ==
    {i \in 1..Len(config_data["ENVIRONMENT"]) :
        ~Has(config_data, BudgetKey(config_data["ENVIRONMENT"][i]))}

\* every environment passed its name and subfolder check and the budget check has run
BudgetsChecked ==
    /\ provisioner = "project"
    /\ envIdx > Len(config_data["ENVIRONMENT"])
    /\ vstate \in {"complete", "rejected"}

\* C14: a project validation completes only if every declared environment has its
\* BUDGET_<E> key; when all name and subfolder checks passed and some environment has
\* none, the request is rejected with the budget error naming the first such key
C14_BudgetCompleteness ==
    /\ ProjectValidated => MissingBudgets = {}
    /\ (BudgetsChecked /\ MissingBudgets # {}) =>
           /\ vstate = "rejected"
           /\ pc \in {"validate_failed", "except", "done"}
           /\ pc # "done" =>
                  /\ exc.type = "GcpProvisioningError"
                  /\ exc.reason = "No associated budget key"
                  /\ exc.keys = << BudgetKey(config_data["ENVIRONMENT"][
                                       CHOOSE i \in MissingBudgets : \A j \in MissingBudgets : i <= j]) >>
           /\ pc = "done" => EndsBlockedWith({"No associated budget key"}) /\ response = Returned(500)

\* both environments of a request passed their checks, the first has its budget, the
\* second has none, and the request was rejected
C14_Witness ==
    /\ BudgetsChecked
    /\ pc = "done"
    /\ Len(dw_env_project_name_list) = 2
    /\ MissingBudgets = {2}
    /\ vstate = "rejected"

-----------------------------------------------------------------------------
(* The commit step. *)

CommitCalls == {i \in 1..Len(ghCalls) : ghCalls[i].op = "commit_file"}

\* the PUT of the commit reached the host and was answered
Answered(i) == ghCalls[i].result # "error"

\* the branch held, at the path of commit i, the very content that was committed
HeldIdentical(i) == ghCalls[i].held # None /\ ghCalls[i].held = ghCalls[i].content

\* the branch held, at the path of commit i, a content with another text
HeldDifferent(i) ==
    ghCalls[i].held # None /\ b64decode(ghCalls[i].held) # b64decode(ghCalls[i].content)

\* commit i raised to push_to_github: it is the last call made and the request is
\* on its error path
CommitRaised(i) == i = Len(ghCalls) /\ pc \in {"push_failed", "except", "done"}

\* commit i returned: the publish step went on
CommitReturned(i) == i < Len(ghCalls) \/ pc \in {"commit_new_file", "create_pull_request"}

\* C15: a commit that finds its path holding the identical content raises nothing:
\* it ends as "file exists with the same content" (or, the content being unreadable,
\* as accepted) and the publish step goes on with the next file or the pull request
C15_IdenticalCommitIsNoOp ==
    \A i \in CommitCalls :
        (HeldIdentical(i) /\ Answered(i)) =>
            /\ ghCalls[i].result \in {"exists_same", "exists_unreadable"}
            /\ CommitReturned(i)
            /\ ~CommitRaised(i)

\* both documents of a project unit were on the branch already, with the same content:
\* both commits went through and the pull request is next
C15_Witness ==
    /\ pc = "create_pull_request"
    /\ provisioner = "project"
    /\ Cardinality(CommitCalls) = 2
    /\ \A i \in CommitCalls : HeldIdentical(i) /\ ghCalls[i].result = "exists_same"
    /\ \E i, j \in CommitCalls : ghCalls[i].path.dir = "data/budgets/"
                                   /\ ghCalls[j].path.dir = "data/projects/"
                                   /\ ghCalls[i].branch = ghCalls[j].branch

\* C16: a commit that finds its path holding a different content always raises to
\* its caller, also when the content held could not be read
C16_DifferentContentRaises ==
    \A i \in CommitCalls :
        (HeldDifferent(i) /\ Answered(i)) => CommitRaised(i)

-----------------------------------------------------------------------------
(* The shape of the payload. *)

\* a POST whose body lacks one of the required keys, or carries an empty issue key or
\* an empty issue-type name
MalformedPost ==
    /\ request.method = "POST"
    /\ request.shape # "ok" \/ request.key = "" \/ request.issuetype = ""

\* C17: a POST with a malformed payload is answered with a status of the 400 class
C17_MalformedPayloadAnswered400 ==
    (pc = "done" /\ MalformedPost) =>
        response.escaped = "none" /\ response.status >= 400 /\ response.status <= 499

-----------------------------------------------------------------------------
(* A listing that fails. *)

\* the names whose existence the validators of this request look up
LookedUp ==
    {config_data["FOLDER_NAME"], config_data["PROJECT_TYPE_FOLDER"]}
      \cup (IF provisioner = "project"
            THEN {DwName(config_data["ENVIRONMENT"][i], config_data["PROJECT_NAME"]) :
                     i \in 1..Len(config_data["ENVIRONMENT"])}
            ELSE {})

\* C18: when the bulk listing fails the provisioner is still built, with an empty
\* snapshot; every existence check against it finds nothing; and a request, folder or
\* project, that meets an empty snapshot is never validated: it is rejected, with no
\* document synthesized and no source-control call made
C18_EmptyIndexRejects ==
    /\ listing = "failed" => provisioner \in {"project", "folder"} /\ assets = << >>
    /\ (provisioner # "none" /\ assets = << >>) =>
           /\ \A name \in LookedUp :
                  /\ check_if_resource_exist(assets, name, FolderType) = None
                  /\ check_if_resource_exist(assets, name, ProjectType) = None
           /\ vstate \in {"unvalidated", "label-formatted", "rejected"}
           /\ pc \in {"validate_jira_request", "validate_folder_existence", "validate_failed",
                       "except", "done"}
           /\ pc \in {"validate_failed", "except", "done"} => vstate = "rejected"
           /\ pc = "done" =>
                  /\ EndsBlockedWith({"Parent folder not found", "Parent folder does not exist"})
                  /\ response = Returned(500)
           /\ github_payload = << >> /\ ghCalls = << >>

\* the listing failed for the reference project request, which was then rejected
C18_Witness ==
    /\ listing = "failed"
    /\ provisioner = "project"
    /\ FieldDepartures = 0
    /\ pc = "done"
    /\ vstate = "rejected"

-----------------------------------------------------------------------------
(* The units that synthesis leaves. *)

\* synthesis went through and the payload is what the publish step works on
Synthesized == pc \in {"push_to_github", "commit_new_file", "create_pull_request", "finish"}

\* the document a file of a unit encodes
Doc(file) == yaml_load(b64decode(file.file)).fields

\* the unit holds the budget document and the project document of environment env
TwoDocuments(unit, env) ==
    /\ unit.env = env
    /\ Len(unit.yaml_content_encoded) = 2
    /\ unit.yaml_content_encoded[1].type = "budget"
    /\ unit.yaml_content_encoded[1].name = unit.name
    /\ Doc(unit.yaml_content_encoded[1]).projects = List(<< Str(unit.name) >>)
    /\ Doc(unit.yaml_content_encoded[1]).units = Float(config_data[BudgetKey(env)])
    /\ unit.yaml_content_encoded[2].type = "project"
    /\ unit.yaml_content_encoded[2].name = unit.name
    /\ Doc(unit.yaml_content_encoded[2]).labels.fields.environment = Str(env)
    /\ Doc(unit.yaml_content_encoded[2]).labels.fields.project_name = Str(unit.name)
    /\ Doc(unit.yaml_content_encoded[2]).parent = Path(config_data[FolderKey(env)])

\* the folder request has one unit with the one document of the folder
OneFolderDocument ==
    /\ Len(github_payload) = 1
    /\ Len(github_payload[1].yaml_content_encoded) = 1
    /\ github_payload[1].yaml_content_encoded[1].type = "folder_yaml"
    /\ Doc(github_payload[1].yaml_content_encoded[1]).name = Str(config_data["FOLDER_NAME"])
    /\ Doc(github_payload[1].yaml_content_encoded[1]).parent = Path(config_data["PARENT_FOLDER_ID"])

\* C19, as stated: after synthesis a folder request has one unit with one document,
\* and a project request has one unit per entry of the target list, the i-th unit
\* holding the budget and the project document of the i-th entry
C19_UnitsPerTarget ==
    Synthesized =>
        IF provisioner = "folder" THEN OneFolderDocument
        ELSE /\ Len(github_payload) = Len(dw_env_project_name_list)
             /\ \A i \in 1..Len(github_payload) :
                    /\ github_payload[i].name = dw_env_project_name_list[i]
                    /\ TwoDocuments(github_payload[i], config_data["ENVIRONMENT"][i])

\* the entries of a list without the repetitions, in the order of their first occurrence
RECURSIVE Distinct(_)
Distinct(list) ==
    IF list = << >> THEN << >>
    ELSE LET front == Distinct(SubSeq(list, 1, Len(list) - 1))
             last == list[Len(list)]
         IN  IF \E i \in 1..Len(front) : front[i] = last THEN front ELSE Append(front, last)

\* C19, amended: after synthesis a folder request has one unit with one document, and
\* a project request has one unit per distinct entry of the target list (an environment
\* declared twice gives one unit), in the order of first occurrence, each unit holding
\* the budget and the project document of its environment
C19_UnitsPerDistinctTarget ==
    Synthesized =>
        IF provisioner = "folder" THEN OneFolderDocument
        ELSE /\ Len(github_payload) = Len(Distinct(dw_env_project_name_list))
             /\ \A i \in 1..Len(github_payload) :
                    /\ github_payload[i].name = Distinct(dw_env_project_name_list)[i]
                    /\ TwoDocuments(github_payload[i], Distinct(config_data["ENVIRONMENT"])[i])

\* a project request for test and prod has its two units, in this order
C19_Witness ==
    /\ Synthesized
    /\ provisioner = "project"
    /\ config_data["ENVIRONMENT"] = << S_test, S_prod >>
    /\ Len(github_payload) = 2
    /\ github_payload[1].env = S_test /\ github_payload[2].env = S_prod

-----------------------------------------------------------------------------
(* Two requests at once: each builds its own provisioner over one hierarchy. *)

Workers == 1..MaxRequests

S_new == << "n", "e", "w" >>
S_neu == << "n", "e", "u" >>
\* names that no asset of the hierarchy carries when the requests arrive
NewNames == {S_new, S_neu}

\* config_data as the parser leaves it for a folder request and for a project request
FolderConfig(name) ==
    Put(Put(<< >>, "FOLDER_NAME", name), "PROJECT_TYPE_FOLDER", S_poc)
ProjectConfig(name) ==
    Put(Put(Put(Put(<< >>, "PROJECT_NAME", name), "FOLDER_NAME", S_fld),
            "ENVIRONMENT", << S_dev >>), BudgetKey(S_dev), 10 * Scale)

Session(kind, name) ==
    [pc |-> "select_provisioner", kind |-> kind,
     config_data |-> IF kind = "folder" THEN FolderConfig(name) ELSE ProjectConfig(name),
     assets |-> << >>, error |-> ""]

\* the snapshot fetched without being kept: every check reads the hierarchy as it is now
SnapshotOf_refreshed(session, live) == live

\* self.assets, as check_if_resource_exist reads it: what __init__ stored
SnapshotOf(session, live) == session.assets

\* _validate_jira_request of the provisioner the issue type selected
SessionValidation(kind, idx, cfg) ==
    IF kind = "folder" THEN FolderValidation(idx, cfg)
    ELSE IF ~_validate_folder_existence(idx, cfg)
    THEN Checked(FALSE, cfg, << >>, "Folder does not exist")
    ELSE IF ~ValidateEnvironment(idx, cfg, << >>, S_dev).ok
    THEN ValidateEnvironment(idx, cfg, << >>, S_dev)
    ELSE IF check_budget_keys(cfg).error # ""
    THEN Checked(FALSE, cfg, << >>, check_budget_keys(cfg).error)
    ELSE ValidateEnvironment(idx, cfg, << >>, S_dev)

\* the asset that the merged pull request of a session adds to the hierarchy
CreatedAsset(w, session) ==
    IF session.kind = "folder"
    THEN FolderAsset(<< "9", DigitOf(w) >>, session.config_data["FOLDER_NAME"],
                     session.config_data["PARENT_FOLDER_ID"],
                     << session.config_data["PARENT_FOLDER_ID"], Org >>)
    ELSE ProjectAsset(<< "8", DigitOf(w) >>,
                      DwName(S_dev, session.config_data["PROJECT_NAME"]),
                      ResId("projects", << "8", DigitOf(w) >>),
                      session.config_data[FolderKey(S_dev)])

Idle ==
    /\ pc = "done"
    /\ request = Req("GET", "ok", "PROJ-1", ProjectIssue, << >>)
    /\ issue_type_name = ""
    /\ jira_id = ""
    /\ config_data = << >>
    /\ fieldIdx = 0
    /\ envIdx = 0
    /\ buildIdx = 0
    /\ provisioner = "none"
    /\ listing = "none"
    /\ assets = << >>
    /\ vstate = "unvalidated"
    /\ dw_env_project_name_list = << >>
    /\ github_manager = FALSE
    /\ github_payload = << >>
    /\ pushPos = << 0, 0 >>
    /\ ticket = << >>
    /\ ghCalls = << >>
    /\ prs = << >>
    /\ exc = NoExc
    /\ response = NoResponse

\* two requests of one issue type have arrived, each for a name that is new
InitTwo ==
    /\ Idle
    /\ hierarchy = RefIndex
    /\ \E kind \in {"folder", "project"} :
           \E names \in [Workers -> NewNames] :
               sessions = [w \in Workers |-> Session(kind, names[w])]

UnchangedOne ==
    UNCHANGED << pc, request, issue_type_name, jira_id, config_data, fieldIdx, envIdx, buildIdx,
                 provisioner, listing, assets, vstate, dw_env_project_name_list,
                 github_manager, github_payload, pushPos, ticket, ghCalls, prs, exc, response >>

\* HierarchyrProvisioner.__init__ of one request: self.assets is listed once
session_init(w) ==
    /\ sessions[w].pc = "select_provisioner"
    /\ sessions' = [sessions EXCEPT ![w].assets = _list_projects_and_folders(Listing(TRUE, hierarchy)),
                                    ![w].pc = "validate_jira_request"]
    /\ UNCHANGED hierarchy
    /\ UnchangedOne

\* AppManager.validate_jira_request of one request
session_validate(w) ==
    /\ sessions[w].pc = "validate_jira_request"
    /\ LET checked == SessionValidation(sessions[w].kind, SnapshotOf(sessions[w], hierarchy),
                                        sessions[w].config_data)
       IN  sessions' = [sessions EXCEPT ![w].config_data = checked.cfg,
                                        ![w].error = checked.error,
                                        ![w].pc = IF checked.ok THEN "push_to_github"
                                                  ELSE "rejected"]
    /\ UNCHANGED hierarchy
    /\ UnchangedOne

\* AppManager.push_to_github of one request: its pull request is open
session_publish(w) ==
    /\ sessions[w].pc = "push_to_github"
    /\ sessions' = [sessions EXCEPT ![w].pc = "published"]
    /\ UNCHANGED hierarchy
    /\ UnchangedOne

\* the pull request of one request is merged and applied: the hierarchy holds the new asset
session_applied(w) ==
    /\ sessions[w].pc = "published"
    /\ hierarchy' = Append(hierarchy, CreatedAsset(w, sessions[w]))
    /\ sessions' = [sessions EXCEPT ![w].pc = "applied"]
    /\ UnchangedOne

NextTwo ==
    \/ \E w \in Workers : session_init(w)
    \/ \E w \in Workers : session_validate(w)
    \/ \E w \in Workers : session_publish(w)
    \/ \E w \in Workers : session_applied(w)

SpecTwo == InitTwo /\ [][NextTwo]_vars

\* the name a session asks for is carried by an asset of this listing
NameTaken(idx, session) ==
    IF session.kind = "folder"
    THEN FoldersNamed(idx, session.config_data["FOLDER_NAME"]) # {}
    ELSE ProjectsNamed(idx, DwName(S_dev, session.config_data["PROJECT_NAME"])) # {}

SameName(s1, s2) ==
    IF s1.kind = "folder"
    THEN s1.config_data["FOLDER_NAME"] = s2.config_data["FOLDER_NAME"]
    ELSE s1.config_data["PROJECT_NAME"] = s2.config_data["PROJECT_NAME"]

\* C20: a request lists the hierarchy once: after construction its snapshot never
\* changes, whatever the other request does to the hierarchy, and its validator
\* passes the request exactly when its own snapshot lacks the requested name, so two
\* requests for one new name that both listed before either change was applied both
\* pass and both publish
C20_SnapshotTakenOnce ==
    [][\A w \in Workers :
           /\ sessions[w].pc # "select_provisioner" => sessions'[w].assets = sessions[w].assets
           /\ (sessions[w].pc = "validate_jira_request" /\ sessions'[w].pc # sessions[w].pc) =>
                 /\ sessions'[w].pc \in {"push_to_github", "rejected"}
                 /\ sessions'[w].pc = "push_to_github" <=> ~NameTaken(sessions[w].assets, sessions[w])
      ]_vars

\* both requests asked for one name, neither was rejected, both published, and the
\* change of the first is already in the hierarchy
C20_Witness ==
    /\ sessions # << >>
    /\ SameName(sessions[1], sessions[2])
    /\ sessions[1].pc = "applied"
    /\ sessions[2].pc \in {"published", "applied"}
    /\ NameTaken(hierarchy, sessions[2])
    /\ ~NameTaken(sessions[2].assets, sessions[2])

-----------------------------------------------------------------------------
(* The first thing the ticket sees. *)

\* a POST whose payload transform_into_json and extract_issue both accept
WellFormedPost == request.method = "POST" /\ ~MalformedPost

\* C21: the "processing started" comment is the first call a request makes to the
\* ticket notifier, it is made before any field is extracted, and a request that is
\* not a POST or whose payload is malformed makes no call to the notifier at all
C21_StartCommentFirst ==
    /\ ticket # << >> =>
          /\ WellFormedPost
          /\ IsComment(ticket[1], "[START] Received Jira webhook payload")
    /\ fieldIdx > 0 => ticket # << >>
    /\ (WellFormedPost /\ pc \notin {"check_if_post_request", "transform_into_json", "extract_issue"})
          => ticket # << >>

-----------------------------------------------------------------------------
(* The transition of a request that went through. *)

\* the transitions requested on the ticket, in order
Transitions == SelectSeq(ticket, LAMBDA e : e.op = "transition")

\* the units of the payload that were built with autoapprove True
AutoApproved == {u \in 1..Len(github_payload) : github_payload[u].autoapprove = TRUE}

\* the request went through: every unit was published and the handler has answered
WentThrough == pc = "done" /\ response = Returned(200) /\ github_payload # << >>

\* C22: when a request went through, "Set as done" was requested once per
\* auto-approved unit and not otherwise, and a request none of whose units was
\* auto-approved ends with "Set as to be reviewed" as its last transition
C22_TransitionReflectsAutoApprove ==
    WentThrough =>
        /\ Len(SelectSeq(Transitions, LAMBDA e : e.tag = "Set as done")) = Cardinality(AutoApproved)
        /\ AutoApproved = {} =>
              IsTransition(Transitions[Len(Transitions)], "Set as to be reviewed")

-----------------------------------------------------------------------------
(* Encoding a document and reading it back. *)

\* the document a file of a unit was encoded from, as its synthesizer builds it
Built(unit, file) ==
    CASE file.type = "budget" -> build_budget_terraform_yaml(config_data, unit.name, unit.env)
      [] file.type = "project" ->
             build_project_terraform_yaml(config_data, unit.name, unit.env, unit.data_type_tag)
      [] file.type = "folder_yaml" ->
             build_project_folder_terraform_yaml(config_data, config_data["PARENT_FOLDER_ID"])

\* the files of the payload, each with its unit
PayloadFiles ==
    {<< u, f >> \in (1..Len(github_payload)) \X (1..2) :
        f <= Len(github_payload[u].yaml_content_encoded)}

-----------------------------------------------------------------------------
(* The states of the project validator. *)

\* the steps of the validator that are not a failure
ValidatorOrder ==
    {<< "unvalidated", "label-formatted" >>, << "label-formatted", "names-checked" >>,
     << "names-checked", "complete" >>}

\* the FOLDER_<E> keys that the environment checks have written
FolderKeysSet == {i \in 1..Len(config_data["ENVIRONMENT"]) :
                     Has(config_data, FolderKey(config_data["ENVIRONMENT"][i]))}

\* C24: the project validator goes unvalidated, label-formatted, names-checked, complete
\* in this order, a failing check takes it from a state that is not terminal to
\* rejected, complete and rejected are left by no step, and after a rejection no later
\* check has run: the environments after the failing one were not evaluated (none at
\* all when the parent folder is missing) and nothing of the validation moves again
C24_ValidatorOrder ==
    /\ [](provisioner = "project" /\ vstate = "rejected" =>
             /\ Len(dw_env_project_name_list) <= envIdx
             /\ \A i \in FolderKeysSet :
                    \E j \in 1..(envIdx - 1) :
                        config_data["ENVIRONMENT"][j] = config_data["ENVIRONMENT"][i])
    /\ [][provisioner = "project" =>
             /\ vstate' # vstate =>
                   \/ << vstate, vstate' >> \in ValidatorOrder
                   \/ vstate \notin {"complete", "rejected"} /\ vstate' = "rejected"
             /\ vstate \in {"complete", "rejected"} =>
                   /\ vstate' = vstate
                   /\ envIdx' = envIdx
                   /\ dw_env_project_name_list' = dw_env_project_name_list
                   /\ \A k \in DOMAIN config_data' \ DOMAIN config_data :
                          k \notin {FolderKey(e) : e \in EnvNames}
      ]_vars

\* a request for two environments was rejected at the first one and has been answered:
\* the second environment was never looked at
C24_Witness ==
    /\ provisioner = "project" /\ vstate = "rejected" /\ pc = "done"
    /\ Len(config_data["ENVIRONMENT"]) = 2
    /\ envIdx = 1
    /\ ~Has(config_data, FolderKey(config_data["ENVIRONMENT"][2]))
    /\ env_mapping_get(config_data["ENVIRONMENT"][2]) # None

-----------------------------------------------------------------------------
(* The subfolder of each environment. *)

\* the folders of the snapshot that carry the display name FOLDER_NAME
DeclaredParents == {assets[i].resname : i \in FoldersNamed(assets, config_data["FOLDER_NAME"])}

\* the folders called as the mapping calls the subfolder of environment e, under a
\* declared parent by their ancestors or by their parent
SubfoldersOf(e) ==
    {i \in 1..Len(assets) :
        /\ assets[i].asset_type = FolderType
        /\ assets[i].displayName = env_mapping_get(e)
        /\ \E p \in DeclaredParents :
               \/ \E k \in 1..Len(assets[i].ancestors) : assets[i].ancestors[k] = p
               \/ assets[i].parent = p}

\* C25: after a successful project validation every declared environment has a mapping
\* and its FOLDER_<E> is set to the identifier of a folder of the snapshot that carries
\* the mapped subfolder name and lies under the declared parent folder
C25_EnvironmentFolderResolved ==
    ProjectValidated =>
        \A i \in 1..Len(config_data["ENVIRONMENT"]) :
            LET e == config_data["ENVIRONMENT"][i]
            IN  /\ env_mapping_get(e) # None
                /\ Has(config_data, FolderKey(e))
                /\ \E a \in SubfoldersOf(e) : config_data[FolderKey(e)] = assets[a].resname

-----------------------------------------------------------------------------
(* The order of the publish calls. *)

\* the calls made for unit u, in order
CallsOf(u) == SelectSeq(ghCalls, LAMBDA c : c.unit = u)

\* within unit u the commits come in the order of the unit's files and no commit
\* follows the creation of its pull request
CommitsBeforePullRequest(u) ==
    LET calls == CallsOf(u)
        commits == SelectSeq(calls, LAMBDA c : c.op = "commit_file")
    IN  /\ \A i \in 1..Len(commits) :
               /\ i <= Len(github_payload[u].yaml_content_encoded)
               /\ commits[i].path.dir = github_payload[u].yaml_content_encoded[i].dir
        /\ \A i \in 1..Len(calls) : \A j \in 1..Len(calls) :
               (calls[i].op = "create_pull_request" /\ calls[j].op = "commit_file") => j < i
        /\ (\E i \in 1..Len(calls) : calls[i].op = "create_pull_request") =>
               Len(commits) = Len(github_payload[u].yaml_content_encoded)

\* C26: the publish calls go unit by unit in the order of the payload; within a unit
\* the files are committed in their order, all of them before the pull request is
\* created; a unit is called for only after the ticket was updated for every unit
\* before it; and after a call for unit k has failed no call is made for a later unit
C26_PublishSequential ==
    /\ \A i \in 1..Len(ghCalls) : \A j \in 1..Len(ghCalls) :
           i < j => ghCalls[i].unit <= ghCalls[j].unit
    /\ \A u \in 1..Len(github_payload) : CommitsBeforePullRequest(u)
    /\ \A i \in 1..Len(ghCalls) : Cardinality(SuccessPairs) >= ghCalls[i].unit - 1
    /\ \A i \in FailedPublishCalls : \A j \in 1..Len(ghCalls) : ghCalls[j].unit <= ghCalls[i].unit

-----------------------------------------------------------------------------
(* Branch names and file paths. *)

\* the path of a file of a unit: f'data/{type_file}s/{name}.yaml', f"gcp/folders/{name}/folder.yaml"
PathOf(p) ==
    [dir |-> github_payload[p[1]].yaml_content_encoded[p[2]].dir,
     name |-> github_payload[p[1]].yaml_content_encoded[p[2]].name]

\* C27: every unit of a project request carries the branch name ticket-<ISSUE_KEY>,
\* which nothing but the ticket id enters, so all units of the request share it; the
\* unit of a folder request carries the ticket id and the formatted folder name; and
\* the files of a project request lie at paths that differ pairwise, data/budgets/<name>
\* and data/projects/<name> of each unit
C27_BranchNamesAndPaths ==
    /\ provisioner = "project" =>
          /\ \A u \in 1..Len(github_payload) :
                 github_payload[u].new_branch_name
                     = [prefix |-> "ticket-", key |-> jira_id, folder |-> << >>]
          /\ \A p \in PayloadFiles : \A q \in PayloadFiles : p # q => PathOf(p) # PathOf(q)
          /\ \A p \in PayloadFiles :
                 /\ PathOf(p).name = github_payload[p[1]].name
                 /\ PathOf(p).dir = IF p[2] = 1 THEN "data/budgets/" ELSE "data/projects/"
    /\ provisioner = "folder" =>
          \A u \in 1..Len(github_payload) :
              github_payload[u].new_branch_name
                  = [prefix |-> "feature/jira-", key |-> jira_id,
                     folder |-> SubWs(Lower(config_data["FOLDER_NAME"]))]

\* a project request for two environments is being published: two units on one
\* branch, four files at four paths
C27_Witness ==
    /\ provisioner = "project" /\ pc = "create_pull_request"
    /\ Len(github_payload) = 2
    /\ github_payload[1].new_branch_name = github_payload[2].new_branch_name
    /\ Cardinality({PathOf(p) : p \in PayloadFiles}) = 4

-----------------------------------------------------------------------------
(* The name the parent folder is looked up by. *)

\* FOLDER_NAME as the request submitted it
SubmittedFolderName == request.fields["customfield_10578"].v

\* the parent-folder check of the project validator has run and let the request pass
ParentCheckPassed == provisioner = "project" /\ envIdx >= 1

\* the parent-folder check of the project validator has run and rejected the request
ParentCheckFailed == provisioner = "project" /\ vstate = "rejected" /\ envIdx = 0

\* C28: once the project validator has formatted the labels, FOLDER_NAME of the
\* configuration map is the submitted value lowercased with its whitespace turned into
\* underscores, and the parent-folder check passes exactly when a folder of the snapshot
\* carries this formatted name as its display name, whatever folder carries the name as
\* submitted
C28_FormattedFolderNameCompared ==
    /\ (provisioner = "project" /\ vstate # "unvalidated") =>
           config_data["FOLDER_NAME"] = SubWs(Lower(SubmittedFolderName))
    /\ ParentCheckPassed => FoldersNamed(assets, SubWs(Lower(SubmittedFolderName))) # {}
    /\ ParentCheckFailed => FoldersNamed(assets, SubWs(Lower(SubmittedFolderName))) = {}

\* a request was rejected at the parent-folder check although a folder of the snapshot
\* carries the name exactly as submitted
C28_Witness ==
    /\ ParentCheckFailed
    /\ SubmittedFolderName # SubWs(Lower(SubmittedFolderName))
    /\ FoldersNamed(assets, SubmittedFolderName) # {}

-----------------------------------------------------------------------------
(* Folder requests and auto-approval. *)

-----------------------------------------------------------------------------
(* Synthesis after a validation that went through. *)

\* C30: a project request whose validation completed never fails in synthesis: the
\* data-security tag is found and every unit gets its budget and its project document
C30_ValidatedRequestSynthesizes ==
    (provisioner = "project" /\ vstate = "complete") =>
        /\ pc # "build_failed"
        /\ pc \in {"push_to_github", "commit_new_file", "create_pull_request", "finish"} =>
               \A u \in 1..Len(github_payload) : Len(github_payload[u].yaml_content_encoded) = 2

=============================================================================
